---- MODULE Spec2Model ----
\* Verification model of the RoamWise backend (GalSened/roamwise-backend-v2).
\* Part 1: the route orchestrator, router.post('/') of src/routes/route.js:
\* LRU+TTL cache, circuit breaker, ORS-first provider selection and the OSRM
\* constraint-relaxation retry, run by concurrently outstanding requests.
EXTENDS Integers, Sequences, FiniteSets, TLC

\* ---------------------------------------------------------------- bounds
\* Number of request slots: requests outstanding at the same time.
MaxReq == 2
\* Number of requests issued in a run (a finished slot takes the next one).
MaxIssued == 3
\* ROUTE_CACHE_MAX of the modelled deployment (route.js:37 reads it from the
\* environment; 1000 by default). One entry with two distinct keys makes
\* eviction happen.
CACHE_MAX == 1

\* ------------------------------------------------------- configuration
\* ROUTE_TIMEOUT_MS of the modelled deployment (route.js:36, default 12000).
\* One clock tick is one request timeout.
TIMEOUT_MS == 30000
\* ROUTE_CACHE_TTL_MS of the modelled deployment (route.js:38, default 300000).
CACHE_TTL_MS == 60000
\* ROUTE_TEST_HOOKS is unset (route.js:30): the production configuration.
TEST_HOOKS == FALSE
\* Breaker cooldowns, hard-coded at route.js:317 and route.js:319.
BREAKER_5XX_MS == 60000
BREAKER_NET_MS == 30000

\* AVOID_MAP (route.js:16-20): user term -> OSRM exclude class, "" = no mapping.
AVOID_MAP(term) ==
  CASE term = "tolls" -> "toll"
    [] term = "ferries" -> "ferry"
    [] term = "highways" -> "motorway"
    [] OTHER -> ""

\* ORS_AVOID_MAP (route.js:23-27).
ORS_AVOID_MAP(term) ==
  CASE term = "tolls" -> "tollways"
    [] term = "ferries" -> "ferries"
    [] term = "highways" -> "highways"
    [] OTHER -> ""

\* ------------------------------------------------------------- inputs
\* Coordinates are integers in micro-degrees (1e-6 degree).
PtA == [lat |-> 32085300, lon |-> 34781800]
\* PtA2 differs from PtA below the 5th decimal: same cache key, other URL.
PtA2 == [lat |-> 32085302, lon |-> 34781800]
PtB == [lat |-> 32109300, lon |-> 34855500]
PtC == [lat |-> 32100000, lon |-> 34800000]

\* constraints.avoid as the validator passes it on (z.record(z.any()),
\* route.js:56): an array of terms, or any other value. isArray/length are
\* what Array.isArray(avoid) and avoid.length give.
AvoidArr(items) == [isArray |-> TRUE, length |-> Len(items), items |-> items]
AvoidStr(n) == [isArray |-> FALSE, length |-> n, items |-> <<>>]
NoAvoid == AvoidArr(<<>>)

\* Request bodies the model issues; force is constraints._testForceRelax.
Body(stops, avoid, force) == [stops |-> stops, avoid |-> avoid, force |-> force]

Bodies ==
  { Body(<<PtA, PtB>>, NoAvoid, FALSE),
    Body(<<PtA, PtB>>, AvoidArr(<<"tolls">>), FALSE),
    Body(<<PtA2, PtB>>, AvoidArr(<<"tolls">>), FALSE),
    Body(<<PtA>>, NoAvoid, FALSE) }

NoBodyIn == Body(<<>>, NoAvoid, FALSE)

Req == 1..MaxReq

\* ------------------------------------------------------ pure functions
\* routeSchema (route.js:50-57): 2..5 stops, each within range.
ValidPoint(p) ==
  /\ p.lat >= -90000000 /\ p.lat <= 90000000
  /\ p.lon >= -180000000 /\ p.lon <= 180000000

RouteSchemaOk(body) ==
  /\ Len(body.stops) >= 2
  /\ Len(body.stops) <= 5
  /\ \A i \in 1..Len(body.stops) : ValidPoint(body.stops[i])

\* Number.prototype.toFixed(5) of a micro-degree value, as an integer count
\* of 1e-5 degrees. (An exact decimal half rounds by the binary value of the
\* double; the coordinates used here are not halves.)
ToFixed5(v) == IF v >= 0 THEN (v + 5) \div 10 ELSE -((-v + 5) \div 10)

RECURSIVE MapFilterDedupe(_, _)
\* avoid.map(AVOID_MAP).filter(Boolean).filter(first occurrence) (route.js:188-191)
MapFilterDedupe(items, seen) ==
  IF items = <<>> THEN <<>>
  ELSE LET c == AVOID_MAP(Head(items)) IN
       IF c = "" \/ c \in seen
       THEN MapFilterDedupe(Tail(items), seen)
       ELSE <<c>> \o MapFilterDedupe(Tail(items), seen \cup {c})

\* buildExcludeParam (route.js:183-194). The comma-joined string is kept as
\* the sequence of its classes; <<>> is the empty string.
buildExcludeParam(avoid) ==
  IF ~avoid.isArray \/ avoid.length = 0 THEN <<>>
  ELSE MapFilterDedupe(avoid.items, {})

\* keyFor with the exclude suffix forgotten.
keyFor_NoExclude(stops, exclude) ==
  [s |-> [i \in 1..Len(stops) |->
            <<ToFixed5(stops[i].lat), ToFixed5(stops[i].lon)>>],
   ex |-> <<>>]

\* keyFor (route.js:170-176): rounded stops in order plus the exclude suffix.
keyFor(stops, exclude) ==
  [s |-> [i \in 1..Len(stops) |->
            <<ToFixed5(stops[i].lat), ToFixed5(stops[i].lon)>>],
   ex |-> exclude]

\* OsrmUrl that takes the second stop for the destination.
OsrmUrl_FirstTwo(stops, exclude) ==
  [a |-> stops[1], b |-> stops[2], exclude |-> exclude]

\* The OSRM URL (route.js:279-283): first and last stop, raw coordinates,
\* and the exclude query string.
OsrmUrl(stops, exclude) ==
  [a |-> stops[1], b |-> stops[Len(stops)], exclude |-> exclude]

\* Math.round of a non-negative value given in tenths.
MathRound10(x10) == (x10 + 5) \div 10

\* ------------------------------------------------ provider call results
\* A route as OSRM answers it for a URL: distance and duration in tenths,
\* the geometry identified by the URL it was computed for, `via` being the
\* lon,lat pairs of the query (route.js:280).
Variants == {1}
Dist10(v) == IF v = 1 THEN 120004 ELSE 119996
Dur10(v) == IF v = 1 THEN 9005 ELSE 8994

NoGeometry ==
  [src |-> "", a |-> PtA, b |-> PtA, exclude |-> <<>>, n |-> 0, via |-> <<>>]
NoRouteData == [distance10 |-> 0, duration10 |-> 0, geometry |-> NoGeometry]

\* What callOsrm returns (route.js:65-85): ok, status (0 = absent),
\* error ("" = absent), and of the JSON body json.code, routes.length and
\* routes[0].
OsrmHttpFail(st) ==
  [ok |-> FALSE, status |-> st, error |-> "", code |-> "", routes |-> 0,
   route |-> NoRouteData]
OsrmError(e) ==
  [ok |-> FALSE, status |-> 0, error |-> e, code |-> "", routes |-> 0,
   route |-> NoRouteData]
OsrmJson(code, n, url, v) ==
  [ok |-> TRUE, status |-> 0, error |-> "", code |-> code, routes |-> n,
   route |-> IF n = 0 THEN NoRouteData
             ELSE [distance10 |-> Dist10(v), duration10 |-> Dur10(v),
                   geometry |-> [src |-> "osrm", a |-> url.a, b |-> url.b,
                                 exclude |-> url.exclude, n |-> 2,
                                 via |-> <<<<url.a.lon, url.a.lat>>,
                                           <<url.b.lon, url.b.lat>>>>]]]
NoResult == OsrmError("")

\* Non-2xx statuses the provider answers with.
HttpFailStatuses == {400, 500}

\* callOsrm(url, timeoutMs) (route.js:65-85): the results a call issued at
\* time `start` can deliver at time t. The abort timer turns the call into
\* error 'timeout' once timeoutMs have passed; before that the fetch can
\* answer non-2xx, throw (network error, unparsable body) or deliver JSON.
\* The clock ticks in steps of TIMEOUT_MS, so an answer comes within the tick
\* the call was issued in, and a call still pending a tick later is aborted.
callOsrm(url, start, t) ==
  (IF t - start >= TIMEOUT_MS THEN {OsrmError("timeout")} ELSE {})
  \cup
  (IF t - start < TIMEOUT_MS
   THEN {OsrmError("TypeError: fetch failed")}
        \cup {OsrmHttpFail(st) : st \in HttpFailStatuses}
        \cup {OsrmJson("NoRoute", 0, url, 1), OsrmJson("Ok", 0, url, 1)}
        \cup {OsrmJson("Ok", 1, url, v) : v \in Variants}
   ELSE {})

\* Response bodies. A success body is the payload (route.js:342-355 and
\* route.js:145-158); a failure body carries the error code.
Payload(d, t, g, relaxed) ==
  [ok |-> TRUE, code |-> "", distance_m |-> d, duration_s |-> t,
   geometry |-> g, route_retry_relaxed |-> relaxed]
ErrBody(code) ==
  [ok |-> FALSE, code |-> code, distance_m |-> 0, duration_s |-> 0,
   geometry |-> NoGeometry, route_retry_relaxed |-> FALSE]
Response(status, body) == [status |-> status, body |-> body]
NoResp == Response(0, ErrBody(""))

\* route.js:341-355: the payload built from routes[0] of the accepted result.
OsrmPayload(res, relaxed) ==
  Payload(MathRound10(res.route.distance10), MathRound10(res.route.duration10),
          res.route.geometry, relaxed)

RECURSIVE OrsFeatures(_, _)
\* callORS's avoid_features (route.js:99-102).
OrsFeatures(items, seen) ==
  IF items = <<>> THEN <<>>
  ELSE LET c == ORS_AVOID_MAP(Head(items)) IN
       IF c = "" \/ c \in seen
       THEN OrsFeatures(Tail(items), seen)
       ELSE <<c>> \o OrsFeatures(Tail(items), seen \cup {c})

\* The body callORS posts (route.js:104-112): every stop as [lon, lat], in
\* order, and the avoid features.
OrsBody(stops, avoid) ==
  [coordinates |-> [i \in 1..Len(stops) |-> <<stops[i].lon, stops[i].lat>>],
   avoid_features |-> OrsFeatures(avoid.items, {})]

\* What callORS returns (route.js:94-165): ok with the normalized payload,
\* or a failure (non-2xx, 'no_route', 'timeout', thrown error). The geometry
\* is identified by the body it was computed for.
OrsOk(stops, avoid, v) ==
  [ok |-> TRUE,
   payload |-> Payload(MathRound10(Dist10(v)), MathRound10(Dur10(v)),
                       [src |-> "ors", a |-> stops[1], b |-> stops[Len(stops)],
                        exclude |-> OrsBody(stops, avoid).avoid_features,
                        n |-> Len(OrsBody(stops, avoid).coordinates),
                        via |-> OrsBody(stops, avoid).coordinates],
                       FALSE)]
OrsFail == [ok |-> FALSE, payload |-> ErrBody("")]

callORS(stops, avoid, start, t) ==
  (IF t - start >= TIMEOUT_MS THEN {OrsFail} ELSE {})
  \cup
  (IF t - start < TIMEOUT_MS
   THEN {OrsFail} \cup {OrsOk(stops, avoid, v) : v \in Variants}
   ELSE {})

\* --------------------------------------------------------------- state
\* Date.now(), in ms. Time is measured from the present: the clock's epoch
\* moves with it, so Date.now() always reads 0 and the passage of time (Tick)
\* moves every stored timestamp back by the time passed.
now == 0

\* A time long past: where a timestamp stops moving back. No comparison the
\* code makes tells apart a breaker deadline one tick or many ticks ago, nor
\* a cache entry one tick or many ticks stale.
LongAgo(limit) == now - limit - TIMEOUT_MS

VARIABLES
  ORS_API_KEY,   \* route.js:35: TRUE iff the ORS key is configured
  traffic,       \* the request bodies the clients of this run send
  breakerUntil,  \* route.js:41
  cache,         \* route.js:44-47: entries, least recently used first
  counters,      \* ops/counters.js:5-8
  issued,        \* requests issued so far
  rq,            \* per request slot: the handler's position and locals
  out,           \* what the handler step just taken did: the response sent
                 \* or the provider call dispatched, with the shared state
                 \* it found
  API_KEY,       \* google-matrix.js, google-places.js: TRUE iff
                 \* GOOGLE_MAPS_API_KEY is configured
  places,        \* what the places provider can answer a text search with
                 \* in this run
  mstore,        \* ops/cache-matrix.js:2: the matrix cache Map
  mclock,        \* Date.now() as the matrix cache reads it
  mcall,         \* per getTravelMatrix invocation: position and locals
  mout,          \* what the getTravelMatrix step just taken did
  sar,           \* one searchAlongRoute invocation: inputs, position, locals
  plan           \* one plan-day invocation: inputs, position, locals

routeVars == <<ORS_API_KEY, traffic, breakerUntil, cache, counters, issued, rq, out>>
matrixVars == <<API_KEY, places, mstore, mclock, mcall, mout>>
vars == <<ORS_API_KEY, traffic, breakerUntil, cache, counters, issued, rq, out,
          API_KEY, places, mstore, mclock, mcall, mout, sar, plan>>

ProviderNames ==
  {"ors", "osrm", "osrm_fallback", "osrm_relaxed", "osrm_fallback_relaxed"}

\* The locals of one invocation of router.post('/') (route.js:218-394).
IdleReq ==
  [pc |-> "idle", body |-> NoBodyIn, exclude |-> <<>>, hit |-> FALSE,
   callStart |-> 0, provider |-> "", first |-> NoResult,
   second |-> NoResult, orsCalls |-> 0, osrmCalls |-> 0]

NoCounters ==
  [route_relaxed_count |-> 0, provider_mix |-> [p \in ProviderNames |-> 0]]

NoOut ==
  [kind |-> "none", step |-> "", before |-> IdleReq, rq |-> IdleReq,
   resp |-> NoResp, breakerBefore |-> 0]

\* The components a specification does not exercise stay as the module
\* load leaves them: no invocation, empty matrix cache.
NoInvocation == [pc |-> "off"]
MatrixCacheAtRest ==
  /\ mstore = {}
  /\ mclock = 0
  /\ mcall = <<>>
  /\ mout = NoInvocation
MatrixAtRest == API_KEY = FALSE /\ places = {} /\ MatrixCacheAtRest
SarAtRest == sar = NoInvocation
PlanAtRest == plan = NoInvocation

Init ==
  /\ ORS_API_KEY \in BOOLEAN
  /\ traffic = Bodies
  /\ breakerUntil = LongAgo(0)  \* route.js:41: 0, the epoch
  /\ cache = <<>>
  /\ counters = NoCounters
  /\ issued = 0
  /\ rq = [r \in Req |-> IdleReq]
  /\ out = NoOut
  /\ MatrixAtRest /\ SarAtRest /\ PlanAtRest

\* The route orchestrator at rest, for the specifications of the other
\* components.
RouteAtRest ==
  /\ ORS_API_KEY = FALSE
  /\ traffic = {}
  /\ breakerUntil = LongAgo(0)
  /\ cache = <<>>
  /\ counters = NoCounters
  /\ issued = 0
  /\ rq = [r \in Req |-> IdleReq]
  /\ out = NoOut

\* ------------------------------------------------ the lru-cache instance
\* new LRUCache({max, ttl}) (route.js:44-47). An entry is stale once its age
\* exceeds ttl; get() drops a stale entry and reports a miss, and moves a
\* fresh one to the most-recently-used end; set() replaces the key's entry or,
\* at max size, evicts the least recently used one.
CacheIndex(c, k) ==
  IF \E i \in 1..Len(c) : c[i].key = k
  THEN CHOOSE i \in 1..Len(c) : c[i].key = k
  ELSE 0

CacheRemove(c, i) == [j \in 1..(Len(c) - 1) |-> IF j < i THEN c[j] ELSE c[j + 1]]

\* IsStale with the ttl taken for seconds.
IsStale_Seconds(e, t) == t - e.start > CACHE_TTL_MS \div 1000

IsStale(e, t) == t - e.start > CACHE_TTL_MS

CacheGet(c, k, t) ==
  LET i == CacheIndex(c, k) IN
  IF i = 0 THEN [hit |-> FALSE, value |-> ErrBody(""), cache |-> c]
  ELSE IF IsStale(c[i], t)
       THEN [hit |-> FALSE, value |-> ErrBody(""), cache |-> CacheRemove(c, i)]
       ELSE [hit |-> TRUE, value |-> c[i].value,
             cache |-> Append(CacheRemove(c, i), c[i])]

CacheSet(c, k, v, t) ==
  LET i == CacheIndex(c, k)
      c1 == IF i = 0 THEN c ELSE CacheRemove(c, i)
      c2 == IF Len(c1) >= CACHE_MAX THEN Tail(c1) ELSE c1
  IN Append(c2, [key |-> k, value |-> v, start |-> t])

\* ------------------------------------------- the handler's decisions
\* BreakerOpen with the deadline itself still rejected.
BreakerOpen_Inclusive(t, until) == t <= until

\* route.js:245: the breaker is open while now < breakerUntil.
BreakerOpen(t, until) == t < until

\* Admission with the breaker check left out.
Admission_NoBreaker(hit, t, until) == IF hit THEN "hit" ELSE "dispatch"

\* Admission with the breaker consulted before the cache.
Admission_BreakerFirst(hit, t, until) ==
  IF BreakerOpen(t, until) THEN "open"
  ELSE IF hit THEN "hit"
  ELSE "dispatch"

\* route.js:236-252: cache first, then the breaker, then dispatch.
Admission(hit, t, until) ==
  IF hit THEN "hit"
  ELSE IF BreakerOpen(t, until) THEN "open"
  ELSE "dispatch"

\* A strategy that prefers ORS whenever it is configured.
UseOrs_WheneverConfigured(avoid, key) == key

\* route.js:255,260: wantsAvoid && ORS_API_KEY.
UseOrs(avoid, key) == avoid.length > 0 /\ key

\* route.js:289: the test hook that forces the retry path.
ForceRelax(hooks, exclude, body) == hooks /\ exclude # <<>> /\ body.force

\* NeedsRetry that looks at the transport outcome only.
NeedsRetry_FailOnly(first) == ~first.ok

\* route.js:295: retry if the first call failed or OSRM answered non-Ok.
NeedsRetry(first) == ~first.ok \/ (first.ok /\ first.code # "Ok")

\* route.js:300: the retry is accepted.
SecondAccepted(second) == second.ok /\ second.code = "Ok" /\ second.routes > 0

\* route.js:302: relaxed = !!exclude.
RelaxedFlag(exclude) == exclude # <<>>

\* route.js:303-307.
RelaxedProvider(provider) ==
  IF provider = "osrm_fallback" THEN "osrm_fallback_relaxed" ELSE "osrm_relaxed"

\* route.js:314: no valid route.
RouteFailed(first) == ~first.ok \/ first.code # "Ok" \/ first.routes = 0

\* route.js:316-320: the breaker after a failure at time t.
BreakerAfterFailure(first, t, until) ==
  IF first.status # 0 /\ first.status >= 500 THEN t + BREAKER_5XX_MS
  ELSE IF first.error # "" THEN t + BREAKER_NET_MS
  ELSE until

\* route.js:335.
ErrorCode(first) ==
  IF first.error = "timeout" THEN "provider_timeout" ELSE "provider_error"

\* UpdateCounters that counts a relaxation for every fallback too.
UpdateCounters_FallbackRelaxed(c, provider, payload) ==
  [route_relaxed_count |->
     IF payload.route_retry_relaxed \/ provider = "osrm_fallback"
     THEN c.route_relaxed_count + 1
     ELSE c.route_relaxed_count,
   provider_mix |->
     IF provider = "" THEN c.provider_mix
     ELSE [c.provider_mix EXCEPT ![provider] = @ + 1]]

\* incrProvider (ops/counters.js:21-24) and incrRelaxed (ops/counters.js:13-15),
\* as called at route.js:364-367.
UpdateCounters(c, provider, payload) ==
  [route_relaxed_count |->
     IF payload.route_retry_relaxed THEN c.route_relaxed_count + 1
     ELSE c.route_relaxed_count,
   provider_mix |->
     IF provider = "" THEN c.provider_mix
     ELSE [c.provider_mix EXCEPT ![provider] = @ + 1]]

\* ------------------------------------------------------------- actions
\* The record of a handler step: which step of invocation r ran, the
\* invocation's locals before and after it, the response (if one was sent)
\* and the breaker deadline the step started from.
Event(kind, r, cur, resp) ==
  [kind |-> kind, step |-> rq[r].pc, before |-> rq[r], rq |-> cur,
   resp |-> resp, breakerBefore |-> breakerUntil]

\* res.status(..).json(..): the invocation ends and its slot is free again.
Respond(r, cur, status, body) ==
  /\ rq' = [rq EXCEPT ![r] = IdleReq]
  /\ out' = Event("response", r, [cur EXCEPT !.pc = "done"], Response(status, body))

\* An await on a provider call: the invocation is suspended at pc.
Await(r, cur) ==
  /\ rq' = [rq EXCEPT ![r] = cur]
  /\ out' = Event("dispatch", r, cur, NoResp)

\* route.js:358-384: cache the payload, count it, answer 200.
Succeed(r, cur, payload) ==
  /\ cache' = CacheSet(cache, keyFor(cur.body.stops, cur.exclude), payload, now)
  /\ counters' = UpdateCounters(counters, cur.provider, payload)
  /\ Respond(r, cur, 200, payload)
  /\ UNCHANGED breakerUntil

\* Conclude that empties the cache when it opens the breaker.
Conclude_DropsCache(r, cur, relaxed) ==
  IF RouteFailed(cur.first)
  THEN /\ breakerUntil' = BreakerAfterFailure(cur.first, now, breakerUntil)
       /\ Respond(r, cur, 502, ErrBody(ErrorCode(cur.first)))
       /\ cache' = IF breakerUntil' # breakerUntil THEN <<>> ELSE cache
       /\ UNCHANGED counters
  ELSE Succeed(r, cur, OsrmPayload(cur.first, relaxed))

\* Conclude that classifies the first attempt before looking at the retry.
Conclude_BreakerOnFirst(r, cur, relaxed) ==
  IF RouteFailed(cur.first)
  THEN /\ breakerUntil' = BreakerAfterFailure(cur.first, now, breakerUntil)
       /\ Respond(r, cur, 502, ErrBody(ErrorCode(cur.first)))
       /\ UNCHANGED <<cache, counters>>
  ELSE /\ breakerUntil' = BreakerAfterFailure(rq[r].first, now, breakerUntil)
       /\ cache' = CacheSet(cache, keyFor(cur.body.stops, cur.exclude),
                            OsrmPayload(cur.first, relaxed), now)
       /\ counters' = UpdateCounters(counters, cur.provider,
                                     OsrmPayload(cur.first, relaxed))
       /\ Respond(r, cur, 200, OsrmPayload(cur.first, relaxed))

\* route.js:311-356 then 358-384: a failure sets the breaker and answers 502;
\* a valid route becomes the payload.
Conclude(r, cur, relaxed) ==
  IF RouteFailed(cur.first)
  THEN /\ breakerUntil' = BreakerAfterFailure(cur.first, now, breakerUntil)
       /\ Respond(r, cur, 502, ErrBody(ErrorCode(cur.first)))
       /\ UNCHANGED <<cache, counters>>
  ELSE Succeed(r, cur, OsrmPayload(cur.first, relaxed))

\* route.js:254-286, after the breaker check: provider selection and the
\* first provider call.
Dispatch(r, cur) ==
  IF UseOrs(cur.body.avoid, ORS_API_KEY)
  THEN IF ~cur.body.avoid.isArray
       THEN \* avoidArr.map throws in callORS (route.js:99-100), caught at
            \* route.js:386-393
            Respond(r, [cur EXCEPT !.provider = "ors"], 500, ErrBody("internal_error"))
       ELSE Await(r, [cur EXCEPT !.pc = "ors", !.provider = "ors",
                                 !.callStart = now, !.orsCalls = 1])
  ELSE Await(r, [cur EXCEPT !.pc = "osrm1", !.provider = "osrm",
                            !.callStart = now, !.osrmCalls = 1])

\* route.js:218-286, up to the first await: validation, cache lookup,
\* breaker check, provider selection and the first provider call.
Arrive(r) ==
  /\ rq[r].pc = "idle"
  /\ \A q \in Req : q < r => rq[q].pc # "idle"
  /\ issued < MaxIssued
  /\ issued' = issued + 1
  /\ \E b \in traffic :
       IF ~RouteSchemaOk(b)
       THEN /\ Respond(r, [IdleReq EXCEPT !.body = b], 400, ErrBody("invalid_request"))
            /\ UNCHANGED cache
       ELSE
       LET exclude == buildExcludeParam(b.avoid)
           g == CacheGet(cache, keyFor(b.stops, exclude), now)
           adm == Admission(g.hit, now, breakerUntil)
           cur == [IdleReq EXCEPT !.body = b, !.exclude = exclude,
                                  !.hit = g.hit]
       IN
       /\ cache' = g.cache
       /\ CASE adm = "hit" -> Respond(r, cur, 200, g.value)
            [] adm = "open" -> Respond(r, cur, 503, ErrBody("provider_unavailable"))
            [] OTHER -> Dispatch(r, cur)
  /\ UNCHANGED <<ORS_API_KEY, traffic, breakerUntil, counters>>
  /\ UNCHANGED <<matrixVars, sar, plan>>

\* route.js:262-286: callORS resolves; on failure fall back to OSRM.
OrsReturn(r) ==
  /\ rq[r].pc = "ors"
  /\ \E res \in callORS(rq[r].body.stops, rq[r].body.avoid, rq[r].callStart, now) :
       IF res.ok
       THEN Succeed(r, rq[r], res.payload)
       ELSE /\ Await(r, [rq[r] EXCEPT !.pc = "osrm1", !.provider = "osrm_fallback",
                                      !.callStart = now, !.osrmCalls = 1])
            /\ UNCHANGED <<cache, breakerUntil, counters>>
  /\ UNCHANGED <<ORS_API_KEY, traffic, issued, matrixVars, sar, plan>>

\* route.js:286-298 (and 311-384 when no retry is made): the first callOsrm
\* resolves.
OsrmFirstReturn(r) ==
  /\ rq[r].pc = "osrm1"
  /\ \E res \in callOsrm(OsrmUrl(rq[r].body.stops, rq[r].exclude), rq[r].callStart, now) :
       LET first == IF ForceRelax(TEST_HOOKS, rq[r].exclude, rq[r].body)
                    THEN OsrmError("test_forced") ELSE res
           cur == [rq[r] EXCEPT !.first = first]
       IN
       IF NeedsRetry(first)
       THEN /\ Await(r, [cur EXCEPT !.pc = "osrm2", !.callStart = now, !.osrmCalls = 2])
            /\ UNCHANGED <<cache, breakerUntil, counters>>
       ELSE Conclude(r, cur, FALSE)
  /\ UNCHANGED <<ORS_API_KEY, traffic, issued, matrixVars, sar, plan>>

\* OsrmSecondReturn that retries again when the retry fails.
OsrmSecondReturn_Again(r) ==
  /\ rq[r].pc = "osrm2"
  /\ \E second \in callOsrm(OsrmUrl(rq[r].body.stops, <<>>), rq[r].callStart, now) :
       LET cur == [rq[r] EXCEPT !.second = second] IN
       IF SecondAccepted(second)
       THEN Conclude(r, [cur EXCEPT !.first = second,
                                    !.provider = RelaxedProvider(cur.provider)],
                     RelaxedFlag(cur.exclude))
       ELSE /\ Await(r, [cur EXCEPT !.callStart = now, !.osrmCalls = @ + 1])
            /\ UNCHANGED <<cache, breakerUntil, counters>>
  /\ UNCHANGED <<ORS_API_KEY, traffic, issued, matrixVars, sar, plan>>

\* OsrmSecondReturn that classifies the failure of the retry.
OsrmSecondReturn_ClassifySecond(r) ==
  /\ rq[r].pc = "osrm2"
  /\ \E second \in callOsrm(OsrmUrl(rq[r].body.stops, <<>>), rq[r].callStart, now) :
       LET cur == [rq[r] EXCEPT !.second = second] IN
       IF SecondAccepted(second)
       THEN Conclude(r, [cur EXCEPT !.first = second,
                                    !.provider = RelaxedProvider(cur.provider)],
                     RelaxedFlag(cur.exclude))
       ELSE Conclude(r, [cur EXCEPT !.first = second], FALSE)
  /\ UNCHANGED <<ORS_API_KEY, traffic, issued, matrixVars, sar, plan>>

\* route.js:298-384: the retry without exclude resolves.
OsrmSecondReturn(r) ==
  /\ rq[r].pc = "osrm2"
  /\ \E second \in callOsrm(OsrmUrl(rq[r].body.stops, <<>>), rq[r].callStart, now) :
       LET cur == [rq[r] EXCEPT !.second = second] IN
       IF SecondAccepted(second)
       THEN Conclude(r, [cur EXCEPT !.first = second,
                                    !.provider = RelaxedProvider(cur.provider)],
                     RelaxedFlag(cur.exclude))
       ELSE Conclude(r, cur, FALSE)
  /\ UNCHANGED <<ORS_API_KEY, traffic, issued, matrixVars, sar, plan>>

\* A timestamp after TIMEOUT_MS have passed; it stops at `floor`.
Aged(ts, floor) == IF ts - TIMEOUT_MS < floor THEN floor ELSE ts - TIMEOUT_MS

\* Time passes by TIMEOUT_MS, unless a pending call's abort timer is due
\* first.
Tick ==
  /\ \A r \in Req : rq[r].pc # "idle" => now - rq[r].callStart < TIMEOUT_MS
  /\ breakerUntil' = Aged(breakerUntil, LongAgo(0))
  /\ cache' = [i \in 1..Len(cache) |->
                 [cache[i] EXCEPT !.start = Aged(@, LongAgo(CACHE_TTL_MS))]]
  /\ rq' = [r \in Req |->
              IF rq[r].pc = "idle" THEN rq[r]
              ELSE [rq[r] EXCEPT !.callStart = @ - TIMEOUT_MS]]
  /\ out' = NoOut
  /\ UNCHANGED <<ORS_API_KEY, traffic, counters, issued, matrixVars, sar, plan>>

Next ==
  \/ \E r \in Req : Arrive(r)
  \/ \E r \in Req : OrsReturn(r)
  \/ \E r \in Req : OsrmFirstReturn(r)
  \/ \E r \in Req : OsrmSecondReturn(r)
  \/ Tick

Spec == Init /\ [][Next]_vars

\* ------------------------------------------- requests with avoid lists
\* Bodies whose constraints.avoid the validator lets through (z.record(z.any()),
\* route.js:56): the same two terms in two orders, one of them with a
\* repeated term, and a term AVOID_MAP does not know.
AvoidBodies ==
  { Body(<<PtA, PtB>>, AvoidArr(<<"tolls", "ferries">>), FALSE),
    Body(<<PtA, PtB>>, AvoidArr(<<"ferries", "tolls", "ferries">>), FALSE),
    Body(<<PtA, PtB>>, AvoidArr(<<"bridges">>), FALSE) }

AvoidInit ==
  /\ ORS_API_KEY \in BOOLEAN
  /\ traffic = AvoidBodies
  /\ breakerUntil = LongAgo(0)
  /\ cache = <<>>
  /\ counters = NoCounters
  /\ issued = 0
  /\ rq = [r \in Req |-> IdleReq]
  /\ out = NoOut
  /\ MatrixAtRest /\ SarAtRest /\ PlanAtRest

SpecAvoid == AvoidInit /\ [][Next]_vars

\* --------------------------------------- requests with intermediate stops
\* Bodies of three and five stops between the same two end points, two
\* without an avoid list and one with.
ViaBodies ==
  { Body(<<PtA, PtC, PtB>>, NoAvoid, FALSE),
    Body(<<PtA, PtA2, PtB>>, NoAvoid, FALSE),
    Body(<<PtA, PtC, PtA2, PtC, PtB>>, AvoidArr(<<"tolls">>), FALSE) }

ViaInit ==
  /\ ORS_API_KEY \in BOOLEAN
  /\ traffic = ViaBodies
  /\ breakerUntil = LongAgo(0)
  /\ cache = <<>>
  /\ counters = NoCounters
  /\ issued = 0
  /\ rq = [r \in Req |-> IdleReq]
  /\ out = NoOut
  /\ MatrixAtRest /\ SarAtRest /\ PlanAtRest

SpecVia == ViaInit /\ [][Next]_vars

\* ==================================================== the travel matrix
\* ------------------------------------------------------------- bounds
\* Number of getTravelMatrix invocations outstanding at the same time.
MaxMReq == 2
\* Number of clock steps of the matrix specification.
MaxMTicks == 3

\* ------------------------------------------------------ configuration
\* ops/cache-matrix.js:17: the 60s the lookup compares an entry's age with.
MATRIX_TTL_MS == 60000
\* ops/cache-matrix.js:10: 5*60*1000, the width of a time bucket.
BUCKET_MS == 300000
\* Array(n).fill(Infinity) (google-matrix.js, part_000:170-171): a value
\* above every finite duration and distance, so that < and > order it as
\* JavaScript orders Infinity.
Infinity == 999999999

\* The matrix clock starts two steps before a bucket boundary and moves by
\* TIMEOUT_MS: an entry stored at the start is exactly MATRIX_TTL_MS old when
\* the boundary is crossed.
StartClock == BUCKET_MS - 2 * TIMEOUT_MS
MaxClock == StartClock + MaxMTicks * TIMEOUT_MS

\* An optional value (a missing JSON field, an undefined argument): <<>> or
\* <<v>>.
Absent == <<>>
Some(v) == <<v>>

\* ops/cache-matrix.js:4-6: toFixed(4) of micro-degrees, in units of 1e-4.
ToFixed4(v) == IF v >= 0 THEN (v + 50) \div 100 ELSE -((-v + 50) \div 100)
hashPoints(points) ==
  [i \in 1..Len(points) |-> <<ToFixed4(points[i].lat), ToFixed4(points[i].lon)>>]

\* ops/cache-matrix.js:7-11: iso ? Date.parse(iso) : Date.now(), in buckets.
timeBucket(iso, t) == (IF iso = Absent THEN t ELSE iso[1]) \div BUCKET_MS

MatrixKey(mode, points, iso, t) ==
  [mode |-> mode, points |-> hashPoints(points), bucket |-> timeBucket(iso, t)]

\* google-matrix.js (part_000:120-123): toMode.
toMode(mode) ==
  IF mode \in {"DRIVE", "WALK", "BICYCLE", "TWO_WHEELER", "TRANSIT"}
  THEN mode ELSE "DRIVE"

\* part_000:125-130: parseDurationSeconds of the "<n>s" string or of a
\* missing field.
parseDurationSeconds(s) == IF s = Absent THEN 0 ELSE s[1]

\* One element of the provider's response array.
Row(i, j, duration, distanceMeters) ==
  [originIndex |-> i, destinationIndex |-> j, duration |-> duration,
   distanceMeters |-> distanceMeters]

\* part_000:170-179: both matrices start at Infinity and each response row
\* overwrites its cell.
RECURSIVE FillMatrix(_, _, _)
FillMatrix(m, lines, k) ==
  IF k > Len(lines) THEN m
  ELSE LET row == lines[k]
           d == parseDurationSeconds(row.duration)
           dist == IF row.distanceMeters = Absent THEN 0 ELSE row.distanceMeters[1]
       IN FillMatrix(
            [duration_s |-> [m.duration_s EXCEPT
                               ![row.originIndex][row.destinationIndex] = d],
             distance_m |-> [m.distance_m EXCEPT
                               ![row.originIndex][row.destinationIndex] = dist]],
            lines, k + 1)

EmptyMatrix(n) ==
  [duration_s |-> [i \in 0..(n - 1) |-> [j \in 0..(n - 1) |-> Infinity]],
   distance_m |-> [i \in 0..(n - 1) |-> [j \in 0..(n - 1) |-> Infinity]]]

\* The result of googleComputeRouteMatrix: { ok, error?, status?, n?, matrix? }.
MatrixErr(error, status) ==
  [ok |-> FALSE, error |-> error, status |-> status, n |-> 0,
   matrix |-> EmptyMatrix(0)]
MatrixOk(n, lines) ==
  [ok |-> TRUE, error |-> "", status |-> 0, n |-> n,
   matrix |-> FillMatrix(EmptyMatrix(n), lines, 1)]

\* What the fetch of part_000:151-159 can come to: a rejected promise, a
\* non-2xx response, or a 2xx response with a JSON array of rows. The fetch is
\* given no AbortSignal.
FetchThrows == [kind |-> "throws", status |-> 0, lines |-> <<>>]
FetchHttp(status) == [kind |-> "http", status |-> status, lines |-> <<>>]
FetchJson(lines) == [kind |-> "json", status |-> 200, lines |-> lines]
\* No fetch is made.
NoFetch == [kind |-> "none", status |-> 0, lines |-> <<>>]

\* Travel times the provider reports between points i and j.
Secs(i, j) == IF i = j THEN 0 ELSE 600 + 60 * i + 30 * j

\* A response with one row per pair, in row-major order.
AllRows(n) ==
  [k \in 1..(n * n) |->
     Row((k - 1) \div n, (k - 1) % n,
         Some(Secs((k - 1) \div n, (k - 1) % n)),
         Some(10 * Secs((k - 1) \div n, (k - 1) % n)))]
\* The pair (i, j) left out of the response.
RowsWithout(n, i, j) ==
  SelectSeq(AllRows(n), LAMBDA row : ~(row.originIndex = i /\ row.destinationIndex = j))
\* The pair (i, j) reported with a condition but neither duration nor
\* distance (ROUTE_NOT_FOUND).
RowsNoRoute(n, i, j) ==
  [k \in 1..(n * n) |->
     IF AllRows(n)[k].originIndex = i /\ AllRows(n)[k].destinationIndex = j
     THEN Row(i, j, Absent, Absent) ELSE AllRows(n)[k]]

MatrixFetchResults(n) ==
  {FetchThrows, FetchHttp(500), FetchJson(AllRows(n)),
   FetchJson(RowsWithout(n, 0, 1)), FetchJson(RowsNoRoute(n, 0, 1))}

\* part_000:161-180: the result built from a settled fetch (a rejected fetch
\* is not caught: it rejects googleComputeRouteMatrix itself).
MatrixFromFetch(points, fr) ==
  IF fr.kind = "http" THEN MatrixErr("", fr.status)
  ELSE MatrixOk(Len(points), fr.lines)

\* part_000:133-134: the checks before the fetch; "" = go on to the fetch.
MatrixPrecheck(key, points) ==
  IF ~key THEN "no_api_key"
  ELSE IF Len(points) < 2 THEN "need 2+ points"
  ELSE ""

\* part_000:132-181: googleComputeRouteMatrix, given what its fetch (if it
\* makes one) comes to.
googleComputeRouteMatrix(key, points, fr) ==
  IF MatrixPrecheck(key, points) # "" THEN MatrixErr(MatrixPrecheck(key, points), 0)
  ELSE MatrixFromFetch(points, fr)

\* ops/cache-matrix.js:2: the Map, as the set of its entries [key, t, v].
StoreHas(store, key) == \E e \in store : e.key = key
StoreGet(store, key) == CHOOSE e \in store : e.key = key

\* ops/cache-matrix.js:13-19.
getMatrixCache(store, mode, points, iso, t) ==
  LET key == MatrixKey(mode, points, iso, t) IN
  IF ~StoreHas(store, key)
  THEN [hit |-> FALSE, key |-> key, value |-> MatrixErr("", 0), store |-> store]
  ELSE LET ent == StoreGet(store, key) IN
       IF t - ent.t > MATRIX_TTL_MS
       THEN [hit |-> FALSE, key |-> key, value |-> MatrixErr("", 0),
             store |-> store \ {ent}]
       ELSE [hit |-> TRUE, key |-> key, value |-> ent.v, store |-> store]

\* ops/cache-matrix.js:21-23.
setMatrixCache(store, key, value, t) ==
  {e \in store : e.key # key} \cup {[key |-> key, t |-> t, v |-> value]}

\* ------------------------------------------- getTravelMatrix invocations
MReq == 1..MaxMReq

\* The arguments of getTravelMatrix(points, { mode, departureTimeIso }).
MatrixInput(points, mode, iso) == [points |-> points, mode |-> mode, iso |-> iso]
MatrixInputs ==
  {MatrixInput(<<PtA, PtB>>, "DRIVE", Absent),
   MatrixInput(<<PtA2, PtB>>, "DRIVE", Absent),
   MatrixInput(<<PtA, PtB>>, "DRIVE", Some(StartClock)),
   MatrixInput(<<PtA>>, "DRIVE", Absent)}

\* The locals of one invocation (route.js:203-212); `signal` is whether the
\* pending fetch was given an AbortSignal (part_000:151-159 gives none).
IdleCall ==
  [pc |-> "idle", inp |-> MatrixInput(<<>>, "", Absent),
   key |-> MatrixKey("", <<>>, Absent, 0), start |-> 0, signal |-> FALSE]

\* The record of a getTravelMatrix step: "hit" (returned from the cache),
\* "fetch" (suspended in the provider call), "stored" (provider result cached
\* and returned) or "thrown"; with the entry the lookup found, the value
\* returned or the fetch outcome, and the store the step started from.
MEvent(pc, call, found, value, fr) ==
  [pc |-> pc, call |-> call, found |-> found, value |-> value, fr |-> fr,
   before |-> mstore]
NoMEvent ==
  [pc |-> "none", call |-> IdleCall, found |-> Absent,
   value |-> MatrixErr("", 0), fr |-> FetchThrows, before |-> {}]

MatrixInit ==
  /\ API_KEY \in BOOLEAN
  /\ places = {}
  /\ mstore = {}
  /\ mclock = StartClock
  /\ mcall = [r \in MReq |-> IdleCall]
  /\ mout = NoMEvent
  /\ RouteAtRest /\ SarAtRest /\ PlanAtRest

\* route.js:203-207 up to the await: the cache lookup, then the provider's
\* checks and its fetch.
MatrixCall(r) ==
  /\ mcall[r].pc = "idle"
  /\ \A q \in MReq : q < r => mcall[q].pc # "idle"
  /\ \E inp \in MatrixInputs :
       LET c == getMatrixCache(mstore, inp.mode, inp.points, inp.iso, mclock)
           found == IF StoreHas(mstore, c.key)
                    THEN Some(StoreGet(mstore, c.key)) ELSE Absent
           call == [pc |-> "fetch", inp |-> inp, key |-> c.key,
                    start |-> mclock, signal |-> FALSE]
           pre == MatrixPrecheck(API_KEY, inp.points)
       IN
       /\ mstore' = c.store
       /\ IF c.hit
          THEN /\ mout' = MEvent("hit", [call EXCEPT !.pc = "done"], found,
                                 c.value, FetchThrows)
               /\ UNCHANGED mcall
          ELSE IF pre # ""
          THEN \* route.js:207: throw new Error(res.error ...)
               /\ mout' = MEvent("thrown", [call EXCEPT !.pc = "done"], found,
                                 MatrixErr(pre, 0), FetchThrows)
               /\ UNCHANGED mcall
          ELSE /\ mcall' = [mcall EXCEPT ![r] = call]
               /\ mout' = MEvent("fetch", call, found, MatrixErr("", 0), FetchThrows)
  /\ UNCHANGED <<API_KEY, places, mclock, routeVars, sar, plan>>

\* MatrixReturn with the result stored before it is looked at.
MatrixReturn_StoreFirst(r) ==
  /\ mcall[r].pc = "fetch"
  /\ \E fr \in MatrixFetchResults(Len(mcall[r].inp.points)) :
       LET res == IF fr.kind = "throws" THEN MatrixErr("TypeError: fetch failed", 0)
                  ELSE MatrixFromFetch(mcall[r].inp.points, fr)
           call == [mcall[r] EXCEPT !.pc = "done"]
       IN
       /\ mstore' = IF fr.kind = "throws" THEN mstore
                    ELSE setMatrixCache(mstore, mcall[r].key, res, mclock)
       /\ IF ~res.ok
          THEN mout' = MEvent("thrown", call, Absent, res, fr)
          ELSE mout' = MEvent("stored", call, Absent, res, fr)
  /\ mcall' = [mcall EXCEPT ![r] = IdleCall]
  /\ UNCHANGED <<API_KEY, places, mclock, routeVars, sar, plan>>

\* route.js:206-211: the provider call settles; a failure is thrown, a
\* success is stored under the key of the lookup and returned.
MatrixReturn(r) ==
  /\ mcall[r].pc = "fetch"
  /\ \E fr \in MatrixFetchResults(Len(mcall[r].inp.points)) :
       LET res == IF fr.kind = "throws" THEN MatrixErr("TypeError: fetch failed", 0)
                  ELSE MatrixFromFetch(mcall[r].inp.points, fr)
           call == [mcall[r] EXCEPT !.pc = "done"]
       IN
       IF ~res.ok
       THEN /\ mout' = MEvent("thrown", call, Absent, res, fr)
            /\ UNCHANGED mstore
       ELSE /\ mstore' = setMatrixCache(mstore, mcall[r].key, res, mclock)
            /\ mout' = MEvent("stored", call, Absent, res, fr)
  /\ mcall' = [mcall EXCEPT ![r] = IdleCall]
  /\ UNCHANGED <<API_KEY, places, mclock, routeVars, sar, plan>>

\* Time passes by TIMEOUT_MS. No abort timer is attached to a pending matrix
\* fetch, so nothing is due before the clock moves.
MatrixTick ==
  /\ mclock < MaxClock
  /\ mclock' = mclock + TIMEOUT_MS
  /\ mout' = NoMEvent
  /\ UNCHANGED <<API_KEY, places, mstore, mcall, routeVars, sar, plan>>

MatrixNext ==
  \/ \E r \in MReq : MatrixCall(r)
  \/ \E r \in MReq : MatrixReturn(r)
  \/ MatrixTick

SpecMatrix == MatrixInit /\ [][MatrixNext]_vars

\* ================================================= search along route
\* ----------------------------------------------------- places provider
\* A place as places:searchText returns it (part_001:19-52): id, location,
\* rating (in tenths) and userRatingCount, each possibly missing.
Place(id, location, rating10, n) ==
  [id |-> id, location |-> location, rating10 |-> rating10, userRatingCount |-> n]
P1 == Place("p1", Some(PtC), 45, 100)
P2 == Place("p2", Some(PtB), 45, 10)
P3 == Place("p3", Absent, 50, 100)
P4 == Place("p4", Some(PtA2), 40, 0)
PNoId == Place("", Some(PtC), 50, 100)
P5 == Place("p5", Some(PtA), 40, 10)

\* Math.log1p on the review counts the model uses, in thousandths.
Log1p(n) ==
  CASE n = 0 -> 0
    [] n = 10 -> 2398
    [] n = 100 -> 4615
    [] OTHER -> 0

\* rating * Math.log1p(count) (part_001:8-12, part_005:94-95), in 1e-4 units.
scorePlace(rating10, n) == rating10 * Log1p(n)

\* The result of placesTextSearch (part_001:14-52): { ok, items } or a
\* failure; a rejected fetch rejects the call itself ("throws").
SearchFail == [kind |-> "fail", items |-> <<>>]
SearchThrows == [kind |-> "throws", items |-> <<>>]
SearchOk(items) == [kind |-> "ok", items |-> items]
SearchResults ==
  {SearchFail, SearchThrows, SearchOk(<<>>), SearchOk(<<P1, P2>>),
   SearchOk(<<PNoId, P3, P2>>), SearchOk(<<P1, P4>>)}

\* The result of placeDetails (part_001:55-76).
DetailResults == {"ok", "fail", "throws"}

\* ------------------------------------------------------- the SAR steps
\* part_005:26-31: every step-th point, and the last one if it was skipped.
SampleStep(n) == IF n \div 20 > 1 THEN n \div 20 ELSE 1
Downsample(pts) ==
  LET n == Len(pts)
      step == SampleStep(n)
      m == (n + step - 1) \div step
      picked == [k \in 1..m |-> pts[(k - 1) * step + 1]]
  IN IF n > 0 /\ (m - 1) * step + 1 # n THEN Append(picked, pts[n]) ELSE picked

\* AddUnseen without the seen set.
RECURSIVE AddUnseen_NoSeen(_, _, _)
AddUnseen_NoSeen(candidates, items, k) ==
  IF k > Len(items) THEN candidates
  ELSE IF items[k].id = ""
       THEN AddUnseen_NoSeen(candidates, items, k + 1)
       ELSE AddUnseen_NoSeen(Append(candidates, items[k]), items, k + 1)

\* part_005:49-53: the items with an id not seen before, in order.
RECURSIVE AddUnseen(_, _, _)
AddUnseen(candidates, items, k) ==
  IF k > Len(items) THEN candidates
  ELSE IF items[k].id = "" \/ \E c \in 1..Len(candidates) : candidates[c].id = items[k].id
       THEN AddUnseen(candidates, items, k + 1)
       ELSE AddUnseen(Append(candidates, items[k]), items, k + 1)

\* part_005:54: the cap on collected candidates.
CANDIDATE_CAP == 50

\* Math.round(x / 60) for an integer number of seconds: halves go up.
RoundDiv60(x) == (x + 30) \div 60

\* DetourMin without the clamp at zero.
DetourMin_NoClamp(o_to_c, c_to_d, o_to_d) ==
  RoundDiv60((o_to_c + c_to_d) - o_to_d)

\* part_005:77-78.
DetourMin(o_to_c, c_to_d, o_to_d) ==
  LET detour_s == (o_to_c + c_to_d) - o_to_d
      r == RoundDiv60(detour_s)
  IN IF r > 0 THEN r ELSE 0

\* Number.isFinite on the values a duration cell can hold.
IsFinite(x) == x # Infinity

\* part_005:81-89: a scored candidate.
Scored(c, detour_min) ==
  [place_id |-> c.id, rating10 |-> c.rating10,
   user_ratings_total |-> c.userRatingCount, location |-> c.location,
   detour_min |-> detour_min, enriched |-> FALSE]

\* part_005:94-95: ascending detour, then descending score.
SarBefore(a, b) ==
  \/ a.detour_min < b.detour_min
  \/ /\ a.detour_min = b.detour_min
     /\ scorePlace(a.rating10, a.user_ratings_total)
          > scorePlace(b.rating10, b.user_ratings_total)

\* Array.prototype.sort (stable) with the comparator of part_005:94-95.
RECURSIVE SarInsert(_, _)
SarInsert(sorted, x) ==
  IF sorted = <<>> THEN <<x>>
  ELSE IF SarBefore(x, sorted[Len(sorted)])
       THEN Append(SarInsert(SubSeq(sorted, 1, Len(sorted) - 1), x), sorted[Len(sorted)])
       ELSE Append(sorted, x)
RECURSIVE SarSort(_)
SarSort(seq) ==
  IF seq = <<>> THEN <<>>
  ELSE SarInsert(SarSort(SubSeq(seq, 1, Len(seq) - 1)), seq[Len(seq)])

\* Array.prototype.slice(0, n).
Slice(seq, n) == SubSeq(seq, 1, IF n < Len(seq) THEN n ELSE Len(seq))

\* The three durations the detour step reads, and the provider responses
\* that produce them: the rows of a 3-point matrix, an unreachable pair left
\* out.
DetourRows(o_to_c, c_to_d, o_to_d) ==
  SelectSeq(<<Row(0, 1, Some(o_to_c), Some(0)), Row(1, 2, Some(c_to_d), Some(0)),
              Row(0, 2, Some(o_to_d), Some(0))>>,
            LAMBDA row : row.duration # Some(Infinity))
DetourFetchResults ==
  {FetchThrows, FetchHttp(500),
   FetchJson(DetourRows(300, 400, 600)), FetchJson(DetourRows(330, 300, 600)),
   FetchJson(DetourRows(600, 600, 300)), FetchJson(DetourRows(600, 660, 300)),
   FetchJson(DetourRows(100, 100, 600)), FetchJson(DetourRows(Infinity, 100, 600))}

\* The arguments of searchAlongRoute (part_005:21); query is whether a
\* non-empty query string is given.
SarInput(query, stops, maxResults, maxDetourMin, enrichDetails) ==
  [query |-> query, stops |-> stops, maxResults |-> maxResults,
   maxDetourMin |-> maxDetourMin, enrichDetails |-> enrichDetails]
\* A route of n distinct points.
Stops(n) == [i \in 1..n |-> [lat |-> PtA.lat + 1000 * i, lon |-> PtA.lon + 1000 * i]]
SarInputs ==
  {SarInput(FALSE, Stops(2), 12, 15, TRUE),
   SarInput(TRUE, Stops(1), 12, 15, TRUE),
   SarInput(TRUE, Stops(2), 12, 15, TRUE),
   SarInput(TRUE, Stops(2), 1, 15, FALSE),
   SarInput(TRUE, Stops(3), 12, 2, FALSE),
   SarInput(TRUE, Stops(3), 2, 0, TRUE),
   SarInput(TRUE, Stops(40), 12, 15, FALSE)}

\* part_005:71-73: the three durations read for a candidate from an ok
\* matrix, with the candidate's id and the length of `scored` before it.
DetourRead(place, o_to_c, c_to_d, o_to_d, before) ==
  [durs |-> <<o_to_c, c_to_d, o_to_d>>, place |-> place, before |-> before]
NoRead == [durs |-> <<>>, place |-> "", before |-> 0]

\* The locals of one invocation of searchAlongRoute: sample, the loop index
\* i over it, candidates, the loop index j over them, scored, top, the
\* enrichment index k; and how it ended (pc "returned" with result, or
\* "thrown").
SarCalled(inp) ==
  [pc |-> "called", inp |-> inp, sample |-> <<>>, i |-> 0, candidates |-> <<>>,
   j |-> 0, scored |-> <<>>, k |-> 0, result |-> <<>>, searches |-> 0,
   lookups |-> 0, details |-> 0, read |-> NoRead]

SarInit ==
  /\ sar \in {SarCalled(inp) : inp \in SarInputs}
  /\ API_KEY \in BOOLEAN
  /\ places = SearchResults
  /\ MatrixCacheAtRest /\ RouteAtRest /\ PlanAtRest

SarReturned(cur, result) == [cur EXCEPT !.pc = "returned", !.result = result]

\* part_005:22-31: the guard and the down-sampling.
SarBegin ==
  /\ sar.pc = "called"
  /\ sar' = IF ~sar.inp.query \/ Len(sar.inp.stops) < 2
            THEN SarReturned(sar, <<>>)
            ELSE [sar EXCEPT !.pc = "search", !.i = 1,
                             !.sample = Downsample(sar.inp.stops)]
  /\ UNCHANGED <<routeVars, matrixVars, plan>>

\* part_005:93-96 and 98-110 up to the first placeDetails: sort, limit, and
\* return unless details are wanted.
SarRank(cur) ==
  LET top == Slice(SarSort(cur.scored), cur.inp.maxResults) IN
  IF cur.inp.enrichDetails /\ top # <<>>
  THEN [cur EXCEPT !.pc = "enrich", !.k = 1, !.result = top]
  ELSE SarReturned(cur, top)

\* part_005:57-62 after the search loop: nothing found, or on to the detours.
SarAfterSearch(cur) ==
  IF cur.candidates = <<>> THEN SarReturned(cur, <<>>)
  ELSE [cur EXCEPT !.pc = "detour", !.j = 1]

\* part_005:36-55: one placesTextSearch around sample[i].
SarSearch ==
  /\ sar.pc = "search"
  /\ \E resp \in (IF API_KEY THEN places ELSE {SearchFail}) :
       LET cur == [sar EXCEPT !.searches = @ + 1,
                              !.candidates = IF resp.kind = "ok"
                                             THEN AddUnseen(@, resp.items, 1) ELSE @]
       IN sar' =
            IF resp.kind = "throws" THEN [cur EXCEPT !.pc = "thrown"]
            ELSE IF (resp.kind = "ok" /\ Len(cur.candidates) > CANDIDATE_CAP)
                    \/ sar.i = Len(sar.sample)
                 THEN SarAfterSearch(cur)
                 ELSE [cur EXCEPT !.i = @ + 1]
  /\ UNCHANGED <<routeVars, matrixVars, plan>>

\* part_005:65-66: the candidate's point; it is skipped when a coordinate is
\* missing or zero.
HasPoint(c) == c.location # Absent /\ c.location[1].lat # 0 /\ c.location[1].lon # 0

\* After candidate j: the next one, or the ranking.
SarAdvance(cur) ==
  IF cur.j = Len(cur.candidates) THEN SarRank(cur) ELSE [cur EXCEPT !.j = @ + 1]

\* part_005:64-91: the detour of candidates[j], from the provider's matrix
\* of [origin, candidate, dest].
SarDetour ==
  /\ sar.pc = "detour"
  /\ LET c == sar.candidates[sar.j] IN
     IF ~HasPoint(c) THEN sar' = SarAdvance([sar EXCEPT !.read = NoRead])
     ELSE
     \E fr \in (IF API_KEY THEN DetourFetchResults ELSE {NoFetch}) :
       LET pts == <<sar.sample[1], c.location[1], sar.sample[Len(sar.sample)]>>
           m == googleComputeRouteMatrix(API_KEY, pts, fr)
           cur == [sar EXCEPT
                     !.lookups = @ + 1,
                     !.read = IF fr.kind # "throws" /\ m.ok
                              THEN DetourRead(c.id, m.matrix.duration_s[0][1],
                                              m.matrix.duration_s[1][2],
                                              m.matrix.duration_s[0][2],
                                              Len(sar.scored))
                              ELSE NoRead]
       IN sar' =
            IF fr.kind = "throws" THEN [cur EXCEPT !.pc = "thrown"]
            ELSE IF ~m.ok THEN SarAdvance(cur)
            ELSE LET o_to_c == m.matrix.duration_s[0][1]
                     c_to_d == m.matrix.duration_s[1][2]
                     o_to_d == m.matrix.duration_s[0][2]
                     detour_min == DetourMin(o_to_c, c_to_d, o_to_d)
                 IN IF ~(IsFinite(o_to_c) /\ IsFinite(c_to_d) /\ IsFinite(o_to_d))
                    THEN SarAdvance(cur)
                    ELSE IF detour_min <= sar.inp.maxDetourMin
                    THEN SarAdvance([cur EXCEPT !.scored = Append(@, Scored(c, detour_min))])
                    ELSE SarAdvance(cur)
  /\ UNCHANGED <<routeVars, matrixVars, plan>>

\* part_005:99-108: placeDetails for top[k], k below min(6, top.length).
SarEnrich ==
  /\ sar.pc = "enrich"
  /\ \E d \in (IF API_KEY THEN DetailResults ELSE {"fail"}) :
       LET cur == [sar EXCEPT !.details = @ + 1,
                              !.result[sar.k].enriched = (d = "ok")]
           last == IF Len(sar.result) < 6 THEN Len(sar.result) ELSE 6
       IN sar' =
            IF d = "throws" THEN [cur EXCEPT !.pc = "thrown"]
            ELSE IF sar.k = last THEN SarReturned(cur, cur.result)
            ELSE [cur EXCEPT !.k = @ + 1]
  /\ UNCHANGED <<routeVars, matrixVars, plan>>

SarNext ==
  \/ SarBegin
  \/ SarSearch
  \/ SarDetour
  \/ SarEnrich

SpecSar == SarInit /\ [][SarNext]_vars

\* ------------------------------------------------ a route through a town
\* Fifty more places without a location, which the provider returns in
\* pages of at most twenty.
BulkIds ==
  <<"b01", "b02", "b03", "b04", "b05", "b06", "b07", "b08", "b09", "b10",
    "b11", "b12", "b13", "b14", "b15", "b16", "b17", "b18", "b19", "b20",
    "b21", "b22", "b23", "b24", "b25", "b26", "b27", "b28", "b29", "b30",
    "b31", "b32", "b33", "b34", "b35", "b36", "b37", "b38", "b39", "b40",
    "b41", "b42", "b43", "b44", "b45", "b46", "b47", "b48", "b49", "b50">>
Bulk(a, b) == [k \in 1..(b - a + 1) |-> Place(BulkIds[a + k - 1], Absent, 40, 10)]
TownSearchResults ==
  {SearchFail, SearchThrows, SearchOk(Bulk(1, 20)), SearchOk(Bulk(21, 40)),
   SearchOk(Bulk(41, 50)), SearchOk(<<P1, P2>>)}
TownInputs == {SarInput(TRUE, Stops(5), 12, 15, TRUE)}

TownInit ==
  /\ sar \in {SarCalled(inp) : inp \in TownInputs}
  /\ API_KEY = TRUE
  /\ places = TownSearchResults
  /\ MatrixCacheAtRest /\ RouteAtRest /\ PlanAtRest

SpecSarTown == TownInit /\ [][SarNext]_vars

\* ========================================================= the day planner
\* part_006:13-22: what resolvePlaceCenterByQueryOrCoords does before any
\* search: `lat && lon` takes the coordinates when both are truthy.
Truthy(x) == x # Absent /\ x[1] # 0
OriginDecision(lat, lon, query) ==
  IF Truthy(lat) /\ Truthy(lon) THEN "current"
  ELSE IF ~query THEN "invalid"
  ELSE "search"

\* part_006:31-44: the origin from the text search result.
OriginFromSearch(resp) ==
  IF resp.kind # "ok" \/ resp.items = <<>>
  THEN [ok |-> FALSE, center |-> [lat |-> Absent, lon |-> Absent], source |-> ""]
  ELSE LET top == resp.items[1] IN
       [ok |-> TRUE,
        center |-> IF top.location = Absent THEN [lat |-> Absent, lon |-> Absent]
                   ELSE [lat |-> Some(top.location[1].lat),
                         lon |-> Some(top.location[1].lon)],
        source |-> "hotel"]

\* part_006:76-85: a near-origin candidate.
Candidate(r) ==
  [place_id |-> r.id, rating10 |-> r.rating10,
   user_ratings_total |-> r.userRatingCount,
   loc |-> IF r.location = Absent THEN [lat |-> Absent, lon |-> Absent]
           ELSE [lat |-> Some(r.location[1].lat), lon |-> Some(r.location[1].lon)]]

\* part_006:73-86: the items with an id not seen before, as candidates.
RECURSIVE CollectUnseen(_, _, _)
CollectUnseen(all, items, k) ==
  IF k > Len(items) THEN all
  ELSE IF items[k].id = "" \/ \E c \in 1..Len(all) : all[c].place_id = items[k].id
       THEN CollectUnseen(all, items, k + 1)
       ELSE CollectUnseen(Append(all, Candidate(items[k])), items, k + 1)

\* part_006:92-95: descending score, stable.
RECURSIVE ScoreInsert(_, _)
ScoreInsert(sorted, x) ==
  IF sorted = <<>> THEN <<x>>
  ELSE IF scorePlace(x.rating10, x.user_ratings_total)
            > scorePlace(sorted[Len(sorted)].rating10, sorted[Len(sorted)].user_ratings_total)
       THEN Append(ScoreInsert(SubSeq(sorted, 1, Len(sorted) - 1), x), sorted[Len(sorted)])
       ELSE Append(sorted, x)
RECURSIVE ScoreSort(_)
ScoreSort(seq) ==
  IF seq = <<>> THEN <<>>
  ELSE ScoreInsert(ScoreSort(SubSeq(seq, 1, Len(seq) - 1)), seq[Len(seq)])

\* part_006:97 and 167: sort, limit, and keep the candidates with both
\* coordinates truthy.
Picks(all, limit) ==
  SelectSeq(Slice(ScoreSort(all), limit),
            LAMBDA c : Truthy(c.loc.lat) /\ Truthy(c.loc.lon))

\* A handler that never takes the empty-plan exit.
EmptyPlan_Never(picks) == FALSE

\* part_006:174: no candidates, so the empty plan.
EmptyPlan(picks) == Len(picks) = 0

\* Best that takes the nearest candidate even when none is reachable.
Best_AnyUnused(dur, last, unused) ==
  CHOOSE idx \in unused :
    /\ \A o \in unused : dur[last][idx] <= dur[last][o]
    /\ \A o \in unused : dur[last][o] = dur[last][idx] => idx <= o

\* Best with ties going to the candidate scanned last.
Best_LastMin(dur, last, unused) ==
  IF \E idx \in unused : dur[last][idx] < Infinity
  THEN CHOOSE idx \in unused :
         /\ dur[last][idx] < Infinity
         /\ \A o \in unused : dur[last][idx] <= dur[last][o]
         /\ \A o \in unused : dur[last][o] = dur[last][idx] => idx >= o
  ELSE -1

\* part_006:201-209: the scan of `unused` (in ascending index order) for the
\* smallest duration strictly below the best so far, starting at Infinity;
\* -1 stands for best === null.
Best(dur, last, unused) ==
  IF \E idx \in unused : dur[last][idx] < Infinity
  THEN CHOOSE idx \in unused :
         /\ dur[last][idx] < Infinity
         /\ \A o \in unused : dur[last][idx] <= dur[last][o]
         /\ \A o \in unused : dur[last][o] = dur[last][idx] => idx <= o
  ELSE -1

\* part_006:199-216: the greedy loop.
RECURSIVE Greedy(_, _, _)
Greedy(dur, order, unused) ==
  IF unused = {} THEN order
  ELSE LET best == Best(dur, order[Len(order)], unused) IN
       IF best # -1 THEN Greedy(dur, Append(order, best), unused \ {best})
       ELSE order

\* part_006:193-217: order = [0, greedy order of 1..n-2, n-1].
PlanOrder(dur, n) == Append(Greedy(dur, <<0>>, 1..(n - 2)), n - 1)

\* Timeline whose ETA is the leg's own duration.
RECURSIVE Timeline_LegOnly(_, _, _, _)
Timeline_LegOnly(dur, order, i, cum) ==
  IF i > Len(order) - 1 THEN <<>>
  ELSE LET a == order[i]
           b == order[i + 1]
           leg_s == dur[a][b]
       IN IF IsFinite(leg_s)
          THEN <<[from |-> a, to |-> b, leg_seconds |-> Some(leg_s),
                  eta_seconds |-> Some(leg_s), enriched |-> FALSE]>>
               \o Timeline_LegOnly(dur, order, i + 1, cum)
          ELSE <<[from |-> a, to |-> b, leg_seconds |-> Absent,
                  eta_seconds |-> Absent, enriched |-> FALSE]>>
               \o Timeline_LegOnly(dur, order, i + 1, cum)

\* part_006:220-240: the legs with their running ETA; null is Absent.
RECURSIVE Timeline(_, _, _, _)
Timeline(dur, order, i, cum) ==
  IF i > Len(order) - 1 THEN <<>>
  ELSE LET a == order[i]
           b == order[i + 1]
           leg_s == dur[a][b]
       IN IF IsFinite(leg_s)
          THEN <<[from |-> a, to |-> b, leg_seconds |-> Some(leg_s),
                  eta_seconds |-> Some(cum + leg_s), enriched |-> FALSE]>>
               \o Timeline(dur, order, i + 1, cum + leg_s)
          ELSE <<[from |-> a, to |-> b, leg_seconds |-> Absent,
                  eta_seconds |-> Absent, enriched |-> FALSE]>>
               \o Timeline(dur, order, i + 1, cum)

\* ------------------------------------------------- plan-day invocations
\* The request body of POST /planner/plan-day (part_006:128): origin
\* coordinates (each possibly missing), whether origin_query is given, dest,
\* near_origin (number of types, limit) and whether sar.query is given.
NoPoint == [lat |-> Absent, lon |-> Absent]
At(p) == [lat |-> Some(p.lat), lon |-> Some(p.lon)]
\* A point on the equator: a valid GeoPoint whose latitude is 0.
Equator == [lat |-> Some(0), lon |-> Some(PtA.lon)]
NearOrigin(types, limit) == Some([types |-> types, limit |-> limit])
PlanInput(origin, origin_query, dest, near_origin, sarQuery) ==
  [origin |-> origin, origin_query |-> origin_query, dest |-> dest,
   near_origin |-> near_origin, sar |-> sarQuery]
PlanInputs ==
  {PlanInput(At(PtA), FALSE, NoPoint, NearOrigin(2, 20), TRUE),
   PlanInput(At(PtA), FALSE, At(PtB), NearOrigin(0, 1), FALSE),
   PlanInput(NoPoint, TRUE, NoPoint, NearOrigin(1, 20), TRUE),
   PlanInput(NoPoint, FALSE, NoPoint, NearOrigin(1, 20), FALSE),
   PlanInput(Equator, FALSE, At(PtB), NearOrigin(1, 20), FALSE),
   PlanInput(Equator, TRUE, NoPoint, Absent, FALSE),
   PlanInput(At(PtA), FALSE, NoPoint, Absent, TRUE)}

\* What the text searches of the planner can come to.
PlanSearchResults ==
  {SearchFail, SearchThrows, SearchOk(<<>>), SearchOk(<<P3, P1>>),
   SearchOk(<<P1, P2, P4>>), SearchOk(<<P1, P2, P5, P4>>)}

\* What the fetch of the ordering matrix can come to: every pair reported,
\* the pair origin -> first candidate left out, every pair out of the origin
\* left out, and the pair last candidate -> destination left out.
RowsNotFrom(n, i) ==
  SelectSeq(AllRows(n), LAMBDA row : row.originIndex # i)
\* Travel times that are the same between any two points, and travel times
\* that are the shorter the higher the index of the point gone to.
Level(i, j) == IF i = j THEN 0 ELSE 600
Downhill(i, j) == IF i = j THEN 0 ELSE 900 - 60 * j
RowsOf(n, S(_, _)) ==
  [k \in 1..(n * n) |->
     Row((k - 1) \div n, (k - 1) % n,
         Some(S((k - 1) \div n, (k - 1) % n)),
         Some(10 * S((k - 1) \div n, (k - 1) % n)))]
PlanFetchResults(n) ==
  {FetchThrows, FetchHttp(500), FetchJson(AllRows(n)),
   FetchJson(RowsWithout(n, 0, 1)), FetchJson(RowsNotFrom(n, 0)),
   FetchJson(RowsWithout(n, n - 2, n - 1)),
   FetchJson(RowsOf(n, Level)), FetchJson(RowsOf(n, Downhill))}

\* The response: res.status(..).json(..) of part_006:139, 175-182, 190,
\* 280-294 and 297.
PlanResponse(status, code, source, count, order, timeline, sar_scanned) ==
  [status |-> status, ok |-> status = 200, code |-> code,
   origin_source |-> source, count |-> count, order |-> order,
   timeline |-> timeline, sar_scanned |-> sar_scanned]
NoPlanResponse == PlanResponse(0, "", "", 0, <<>>, <<>>, FALSE)

\* The locals of one invocation of the handler (dur, and routeStops as the
\* indices of the stops handed to SAR, among them), the provider calls it has
\* made (originSearches, searches, matrixCalls, sarCalls, detailCalls) and
\* the SAR and details failures it has met.
PlanCalled(inp) ==
  [pc |-> "called", inp |-> inp, source |-> "", O |-> NoPoint, D |-> NoPoint,
   ti |-> 0, all |-> <<>>, picks |-> <<>>, collected |-> FALSE,
   order |-> <<>>, timeline |-> <<>>, sar_scanned |-> FALSE,
   dur |-> <<>>, routeStops |-> <<>>, e |-> 0, enriched |-> 0,
   originSearches |-> 0, searches |-> 0, matrixCalls |-> 0, sarCalls |-> 0,
   detailCalls |-> 0, sarFailed |-> FALSE, detailFailed |-> FALSE,
   resp |-> NoPlanResponse]

PlanInit ==
  /\ plan \in {PlanCalled(inp) : inp \in PlanInputs}
  /\ API_KEY \in BOOLEAN
  /\ places = PlanSearchResults
  /\ MatrixCacheAtRest /\ RouteAtRest /\ SarAtRest

PlanFail(cur, status, code) ==
  [cur EXCEPT !.pc = "responded",
              !.resp = PlanResponse(status, code, "", 0, <<>>, <<>>, FALSE)]
\* part_006:280-294 (and 175-182 with nothing to order).
PlanOk(cur) ==
  [cur EXCEPT !.pc = "responded",
              !.resp = PlanResponse(200, "", cur.source, Len(cur.picks), cur.order,
                                    cur.timeline, cur.sar_scanned)]

\* part_006:267-278: the next leg at or after index i that ends at a POI,
\* while fewer than 3 were enriched; 0 if there is none.
NextPoiLeg(cur, i) ==
  LET n == Len(cur.picks) + 2
      legs == {l \in i..Len(cur.timeline) : cur.timeline[l].to \notin {0, n - 1}}
  IN IF cur.enriched >= 3 \/ legs = {} THEN 0
     ELSE CHOOSE l \in legs : \A o \in legs : l <= o

\* part_006:265-294: the enrichment loop from leg i on, then the response.
PlanEnrichFrom(cur, i) ==
  IF NextPoiLeg(cur, i) = 0 THEN PlanOk(cur)
  ELSE [cur EXCEPT !.pc = "enrich", !.e = NextPoiLeg(cur, i), !.detailCalls = @ + 1]

\* part_006:244-248: the stops handed to SAR are those with both
\* coordinates truthy.
RouteStops(cur) ==
  LET n == Len(cur.picks) + 2
      pt(a) == IF a = 0 THEN cur.O ELSE IF a = n - 1 THEN cur.D ELSE cur.picks[a].loc
  IN SelectSeq(cur.order, LAMBDA a : Truthy(pt(a).lat) /\ Truthy(pt(a).lon))

\* part_006:243-263: whether SAR is run.
PlanAfterTimeline(cur) ==
  IF cur.inp.sar /\ Len(cur.timeline) > 0 /\ Len(RouteStops(cur)) >= 2
  THEN [cur EXCEPT !.pc = "sar", !.sarCalls = @ + 1,
                   !.routeStops = RouteStops(cur)]
  ELSE PlanEnrichFrom(cur, 1)

\* part_006:173-187: the empty plan, or the matrix call.
PlanAfterPicks(cur) ==
  IF EmptyPlan(cur.picks) THEN PlanOk(cur)
  ELSE [cur EXCEPT !.pc = "matrix", !.matrixCalls = @ + 1]

\* part_006:56: the types searched.
SearchTypes(k) == IF k > 0 THEN k ELSE 1

\* part_006:142-171: O, D, and the candidate collection if requested.
PlanAfterOrigin(cur, source, center) ==
  LET c1 == [cur EXCEPT !.source = source, !.O = center,
                        !.D = IF Truthy(cur.inp.dest.lat)
                              THEN cur.inp.dest ELSE center]
  IN IF cur.inp.near_origin # Absent
     THEN [c1 EXCEPT !.pc = "collect", !.ti = 1, !.searches = 1]
     ELSE PlanAfterPicks([c1 EXCEPT !.collected = TRUE])

\* part_006:131-140: the origin is resolved from the coordinates, refused, or
\* looked up by text search.
PlanBegin ==
  /\ plan.pc = "called"
  /\ LET inp == plan.inp
         dec == OriginDecision(inp.origin.lat, inp.origin.lon, inp.origin_query)
     IN plan' = IF dec = "current" THEN PlanAfterOrigin(plan, "current", inp.origin)
                ELSE IF dec = "invalid" THEN PlanFail(plan, 400, "invalid_request")
                ELSE [plan EXCEPT !.pc = "origin", !.originSearches = 1]
  /\ UNCHANGED <<routeVars, matrixVars, sar>>

\* part_006:24-44, 138-140, 295-298: the text search for origin_query
\* settles.
PlanOrigin ==
  /\ plan.pc = "origin"
  /\ \E resp \in (IF API_KEY THEN places ELSE {SearchFail}) :
       LET r == OriginFromSearch(resp) IN
       plan' = IF resp.kind = "throws" THEN PlanFail(plan, 500, "internal_error")
               ELSE IF ~r.ok THEN PlanFail(plan, 400, "invalid_request")
               ELSE PlanAfterOrigin(plan, r.source, r.center)
  /\ UNCHANGED <<routeVars, matrixVars, sar>>

\* part_006:58-97, 166-183: the text search for one type settles.
PlanCollect ==
  /\ plan.pc = "collect"
  /\ \E resp \in (IF API_KEY THEN places ELSE {SearchFail}) :
       LET spec == plan.inp.near_origin[1]
           all == IF resp.kind = "ok" THEN CollectUnseen(plan.all, resp.items, 1)
                  ELSE plan.all
           done == \/ resp.kind = "ok" /\ Len(all) >= spec.limit
                   \/ plan.ti = SearchTypes(spec.types)
       IN plan' = IF resp.kind = "throws" THEN PlanFail(plan, 500, "internal_error")
                  ELSE IF done
                  THEN PlanAfterPicks([plan EXCEPT !.all = all, !.collected = TRUE,
                                                   !.picks = Picks(all, spec.limit)])
                  ELSE [plan EXCEPT !.all = all, !.ti = @ + 1, !.searches = @ + 1]
  /\ UNCHANGED <<routeVars, matrixVars, sar>>

\* part_006:186-263: the matrix call settles; the order and the timeline.
PlanMatrix ==
  /\ plan.pc = "matrix"
  /\ LET n == Len(plan.picks) + 2
         waypoints == <<plan.O>> \o [k \in 1..Len(plan.picks) |-> plan.picks[k].loc]
                      \o <<plan.D>>
     IN \E fr \in (IF API_KEY THEN PlanFetchResults(n) ELSE {NoFetch}) :
          LET m == googleComputeRouteMatrix(API_KEY, waypoints, fr)
              order == PlanOrder(m.matrix.duration_s, n)
          IN plan' = IF fr.kind = "throws" THEN PlanFail(plan, 500, "internal_error")
                     ELSE IF ~m.ok THEN PlanFail(plan, 502, "matrix_error")
                     ELSE PlanAfterTimeline(
                            [plan EXCEPT !.dur = m.matrix.duration_s,
                                         !.order = order,
                                         !.timeline = Timeline(m.matrix.duration_s,
                                                               order, 1, 0)])
  /\ UNCHANGED <<routeVars, matrixVars, sar>>

\* part_006:249-261, 295-298: searchAlongRoute returns its list, or rejects
\* because one of its fetches did.
PlanSar ==
  /\ plan.pc = "sar"
  /\ \E outcome \in {"returned", "throws"} :
       plan' = IF outcome = "throws"
               THEN PlanFail([plan EXCEPT !.sarFailed = TRUE], 500, "internal_error")
               ELSE PlanEnrichFrom([plan EXCEPT !.sar_scanned = TRUE], 1)
  /\ UNCHANGED <<routeVars, matrixVars, sar>>

\* part_006:270-276, 295-298: placeDetails for the POI of leg e settles.
PlanEnrich ==
  /\ plan.pc = "enrich"
  /\ \E d \in (IF API_KEY THEN DetailResults ELSE {"fail"}) :
       plan' = IF d = "throws"
               THEN PlanFail([plan EXCEPT !.detailFailed = TRUE], 500, "internal_error")
               ELSE IF d = "ok"
               THEN PlanEnrichFrom([plan EXCEPT !.timeline[plan.e].enriched = TRUE,
                                                !.enriched = @ + 1], plan.e + 1)
               ELSE PlanEnrichFrom([plan EXCEPT !.detailFailed = TRUE], plan.e + 1)
  /\ UNCHANGED <<routeVars, matrixVars, sar>>

PlanNext ==
  \/ PlanBegin
  \/ PlanOrigin
  \/ PlanCollect
  \/ PlanMatrix
  \/ PlanSar
  \/ PlanEnrich

SpecPlan == PlanInit /\ [][PlanNext]_vars

\* ================================================================ claims
\* The handler step recorded in `out`: "idle" is a request's arrival,
\* "osrm1"/"osrm2" the return of the first/second primary call.
Arrived == out.step = "idle" /\ RouteSchemaOk(out.rq.body)
Answered == out.kind = "response"
CallsMade == out.rq.orsCalls + out.rq.osrmCalls
Timely(e) == now - e.start < CACHE_TTL_MS

\* C1 (as stated): of the requests that share a normalized cache key within
\* the TTL window, overlapping ones included, at most one issues upstream
\* calls. Two requests with the same key both suspended in a provider call
\* contradict it.
C1_Original ==
  \A r1, r2 \in Req :
    (r1 # r2 /\ rq[r1].pc # "idle" /\ rq[r2].pc # "idle")
      => keyFor(rq[r1].body.stops, rq[r1].exclude)
           # keyFor(rq[r2].body.stops, rq[r2].exclude)

\* C1 (amended): a request that arrives while the cache holds an entry for its
\* normalized key younger than the TTL makes no upstream call and is answered
\* 200 with that entry's value verbatim; and every freshly computed success
\* stores exactly the payload it answers with, stamped with the present time.
C1_Amended ==
  [][ /\ (issued' = issued + 1 /\ RouteSchemaOk(out'.rq.body)) =>
           LET b == out'.rq.body
               k == keyFor(b.stops, buildExcludeParam(b.avoid))
           IN \A i \in 1..Len(cache) :
                (cache[i].key = k /\ Timely(cache[i])) =>
                  /\ out'.kind = "response"
                  /\ out'.resp = Response(200, cache[i].value)
                  /\ out'.rq.orsCalls = 0
                  /\ out'.rq.osrmCalls = 0
      /\ (out'.kind = "response" /\ out'.resp.status = 200 /\ ~out'.rq.hit) =>
           \E i \in 1..Len(cache') :
             cache'[i] = [key |-> keyFor(out'.rq.body.stops, out'.rq.exclude),
                          value |-> out'.resp.body, start |-> now]
    ]_vars

\* C1 witness: a request is served from the cache an entry computed for other
\* raw coordinates with the same rounded key.
C1_Witness ==
  /\ Answered /\ out.rq.hit /\ out.resp.status = 200 /\ CallsMade = 0
  /\ out.resp.body.geometry.a # out.rq.body.stops[1]

\* C2 (as stated): every request arriving before the breaker deadline is
\* answered provider_unavailable.
C2_Original ==
  (Arrived /\ now < out.breakerBefore)
    => out.resp.body.code = "provider_unavailable"

\* C2 (amended): a request that misses the cache is answered
\* provider_unavailable exactly when it arrives before the breaker deadline in
\* force, and from the deadline on it is dispatched to a provider; an arrival
\* never moves the deadline.
C2_Amended ==
  (Arrived /\ ~out.rq.hit) =>
    /\ (now < out.breakerBefore) <=> (out.resp.body.code = "provider_unavailable")
    /\ (now >= out.breakerBefore) => (out.kind = "dispatch" /\ CallsMade = 1)
    /\ breakerUntil = out.breakerBefore

\* C2 witness: a request arriving exactly at the deadline of a breaker that
\* was opened earlier is dispatched.
C2_Witness ==
  Arrived /\ out.breakerBefore = now /\ out.kind = "dispatch"

\* C3: a request whose key has a valid cache entry is answered 200 at once
\* with no provider call, whatever the breaker's state, and leaves the
\* breaker as it was.
C3_HitBypassesBreaker ==
  (Arrived /\ out.rq.hit) =>
    /\ Answered
    /\ out.resp.status = 200
    /\ out.resp.body.ok
    /\ CallsMade = 0
    /\ breakerUntil = out.breakerBefore

\* C3 witness: a cache hit answered while the breaker is open.
C3_Witness ==
  Arrived /\ out.rq.hit /\ now < out.breakerBefore /\ out.resp.status = 200

\* C4: while the breaker is open, a request that misses the cache is answered
\* 503 provider_unavailable at once, with no ORS and no OSRM call.
C4_OpenFailsFast ==
  (Arrived /\ ~out.rq.hit /\ now < out.breakerBefore) =>
    /\ Answered
    /\ out.resp = Response(503, ErrBody("provider_unavailable"))
    /\ out.rq.orsCalls = 0
    /\ out.rq.osrmCalls = 0

\* C4 witness: a request rejected by the open breaker.
C4_Witness ==
  /\ Arrived /\ ~out.rq.hit /\ now < out.breakerBefore
  /\ out.resp.status = 503

\* C5: when the constrained (exclude-carrying) first primary attempt returns a
\* non-success routing code, a second call without exclude is issued; and when
\* that retry returns a route, the request is answered 200 with
\* route_retry_relaxed = TRUE and the route of the unconstrained call.
C5_RelaxOnNonOk ==
  /\ (/\ out.step = "osrm1" /\ out.rq.exclude # <<>>
      /\ out.rq.first.ok /\ out.rq.first.code # "Ok")
       => (out.kind = "dispatch" /\ out.rq.pc = "osrm2" /\ out.rq.osrmCalls = 2)
  /\ (/\ out.step = "osrm2" /\ out.rq.exclude # <<>>
      /\ out.before.first.ok /\ out.before.first.code # "Ok"
      /\ out.rq.second.ok /\ out.rq.second.code = "Ok" /\ out.rq.second.routes > 0)
       => /\ out.resp.status = 200
          /\ out.resp.body.route_retry_relaxed
          /\ out.resp.body.geometry.exclude = <<>>

\* C5 witness: a relaxed success after a non-success routing code.
C5_Witness ==
  /\ out.step = "osrm2" /\ out.rq.exclude # <<>>
  /\ out.before.first.ok /\ out.before.first.code # "Ok"
  /\ out.resp.status = 200 /\ out.resp.body.route_retry_relaxed

\* C6: a response, fresh or from the cache, carries route_retry_relaxed = TRUE
\* only if the request had an avoid constraint and the route came from an OSRM
\* call without exclude; and no cache entry a request without constraints can
\* read is marked relaxed.
C6_RelaxedOnlyIfAvoid ==
  /\ (Answered /\ out.resp.body.route_retry_relaxed) =>
       /\ out.rq.body.avoid.length > 0
       /\ out.resp.body.geometry.src = "osrm"
       /\ out.resp.body.geometry.exclude = <<>>
  /\ \A i \in 1..Len(cache) :
       cache[i].value.route_retry_relaxed => cache[i].key.ex # <<>>

\* C6 witness: a relaxed result served from the cache.
C6_Witness ==
  Answered /\ out.rq.hit /\ out.resp.body.route_retry_relaxed

\* C7: no invocation makes more than two calls to the primary provider.
C7_AtMostTwoPrimaryCalls ==
  /\ \A r \in Req : rq[r].osrmCalls <= 2
  /\ out.rq.osrmCalls <= 2

\* C7 witness: an invocation that failed after two primary calls.
C7_Witness ==
  Answered /\ out.rq.osrmCalls = 2 /\ out.resp.status = 502

\* C8 (as stated): the primary is retried when the first attempt fails,
\* returns a non-success routing code, or returns a success code with zero
\* routes.
C8_Claim ==
  (/\ out.step = "osrm1"
   /\ \/ ~out.rq.first.ok
      \/ out.rq.first.code # "Ok"
      \/ out.rq.first.routes = 0)
    => (out.kind = "dispatch" /\ out.rq.pc = "osrm2" /\ out.rq.osrmCalls = 2)

\* C9 (as stated): after both primary attempts failed, the failure is
\* reported provider_timeout when the retry was aborted by the timeout, and
\* provider_error when neither attempt was.
C9_Claim ==
  (out.step = "osrm2" /\ out.resp.status = 502) =>
    /\ (out.rq.second.error = "timeout")
         => out.resp.body.code = "provider_timeout"
    /\ (out.before.first.error # "timeout" /\ out.rq.second.error # "timeout")
         => out.resp.body.code = "provider_error"

\* C10 (as stated): after both primary attempts failed, the breaker is opened
\* for 60s when the failure was a 5xx, for 30s when it was a network error or
\* timeout, and left unchanged when neither attempt was any of these.
C10_Claim ==
  (out.step = "osrm2" /\ out.resp.status = 502) =>
    LET f == out.before.first
        s2 == out.rq.second
    IN /\ (s2.status >= 500 /\ f.error = "")
            => breakerUntil = now + BREAKER_5XX_MS
       /\ (s2.error # "" /\ f.status < 500)
            => breakerUntil = now + BREAKER_NET_MS
       /\ (s2.status < 500 /\ s2.error = "" /\ f.status < 500 /\ f.error = "")
            => breakerUntil = out.breakerBefore

\* C11: an invocation answered with a success (from the cache, from ORS,
\* from the first OSRM attempt or from the relaxed retry after a failed first
\* attempt) leaves the breaker deadline as it found it.
C11_SuccessKeepsBreaker ==
  (Answered /\ out.resp.status = 200) => breakerUntil = out.breakerBefore

\* C11 witness: a relaxed retry succeeds after a first attempt that failed
\* with a 5xx, and the breaker is where it was.
C11_Witness ==
  /\ out.step = "osrm2" /\ Answered /\ out.resp.status = 200
  /\ out.before.first.status >= 500
  /\ breakerUntil = out.breakerBefore

\* C12 (as stated): every external call carries an abort timer and is aborted
\* when it expires. For the matrix provider: a pending fetch was given an
\* AbortSignal and has been outstanding for no longer than the request
\* timeout.
C12_Claim ==
  \A r \in MReq :
    mcall[r].pc = "fetch" =>
      (mcall[r].signal /\ mclock - mcall[r].start <= TIMEOUT_MS)

\* C19: getTravelMatrix stores every successful provider result under the
\* key of its lookup, stamped with the time of the store, and returns it; when
\* the provider fails (a rejected fetch, a non-2xx answer, a failed check) an
\* error is thrown, nothing is added to the store, and the step on which the
\* provider's failure arrives leaves the store exactly as it was.
C19_StoreOnSuccessOnly ==
  /\ (mout.pc = "stored") =>
       /\ mout.value.ok
       /\ mstore = {e \in mout.before : e.key # mout.call.key}
                     \cup {[key |-> mout.call.key, t |-> mclock, v |-> mout.value]}
  /\ (mout.pc \in {"stored", "thrown"} /\ mout.fr.kind = "json") => mout.pc = "stored"
  /\ (mout.pc = "thrown") =>
       /\ ~mout.value.ok
       /\ mstore \subseteq mout.before
       /\ mout.value.error \notin {"no_api_key", "need 2+ points"}
            => mstore = mout.before

\* C19 witness: the provider answers non-2xx while the store holds an entry
\* of another key; the store is as it was and has no entry for the failed key.
C19_Witness ==
  /\ mout.pc = "thrown" /\ mout.fr.kind = "http"
  /\ mstore # {} /\ mstore = mout.before
  /\ ~StoreHas(mstore, mout.call.key)

\* C20 (as stated): a lookup that finds an entry reports a hit iff the
\* entry's age is strictly below the 60s TTL; at or past the TTL it reports a
\* miss and removes the entry.
C20_Claim ==
  (mout.pc \in {"hit", "fetch", "thrown"} /\ mout.found # Absent) =>
    LET ent == mout.found[1] IN
    /\ (mout.pc = "hit") <=> (mclock - ent.t < MATRIX_TTL_MS)
    /\ (mclock - ent.t >= MATRIX_TTL_MS) => ent \notin mstore

\* C13: every result searchAlongRoute returns carries a detour_min that is a
\* non-negative number not above maxDetourMin, and no two results have the
\* same place id.
C13_SarResults ==
  sar.pc = "returned" =>
    \A a \in 1..Len(sar.result) :
      /\ sar.result[a].detour_min \in Nat
      /\ sar.result[a].detour_min <= sar.inp.maxDetourMin
      /\ \A b \in 1..Len(sar.result) :
           a # b => sar.result[a].place_id # sar.result[b].place_id

\* C13 witness: several searches, a candidate dropped by the detour filter,
\* and two results of which one is exactly at maxDetourMin.
C13_Witness ==
  /\ sar.pc = "returned" /\ Len(sar.result) >= 2
  /\ sar.searches >= 2 /\ sar.lookups > Len(sar.result)
  /\ \E a \in 1..Len(sar.result) : sar.result[a].detour_min = sar.inp.maxDetourMin

\* A plan-day invocation has sent its response.
PlanResponded == plan.pc = "responded"
\* The number of waypoints of the plan: origin, picks, destination.
PlanN == Len(plan.picks) + 2

\* C14: for every travel matrix, unreachable cells included, the greedy
\* order of plan-day starts at index 0, ends at index n-1 and contains each
\* candidate index 1..n-2 exactly once.
C14_Claim ==
  plan.order # <<>> =>
    /\ plan.order[1] = 0
    /\ plan.order[Len(plan.order)] = PlanN - 1
    /\ \A c \in 1..(PlanN - 2) :
         Cardinality({k \in 1..Len(plan.order) : plan.order[k] = c}) = 1

\* C15: a plan-day response that reports count >= 1 has count+1 legs in its
\* timeline and count+2 entries in its order.
C15_Claim ==
  (PlanResponded /\ plan.resp.ok /\ plan.resp.count >= 1) =>
    /\ Len(plan.resp.timeline) = plan.resp.count + 1
    /\ Len(plan.resp.order) = plan.resp.count + 2

\* C16: when the candidate collection ends with zero candidates, plan-day
\* answers ok:true with count 0, an empty order and an empty timeline, and it
\* calls neither the matrix provider nor SAR nor place details.
C16_EmptyPlan ==
  (plan.collected /\ plan.picks = <<>>) =>
    /\ PlanResponded
    /\ plan.resp.status = 200 /\ plan.resp.ok
    /\ plan.resp.count = 0
    /\ plan.resp.order = <<>>
    /\ plan.resp.timeline = <<>>
    /\ plan.matrixCalls = 0 /\ plan.sarCalls = 0 /\ plan.detailCalls = 0
\* Searches found places, none of which is left as a pick.
C16_Witness ==
  /\ PlanResponded /\ plan.collected /\ plan.picks = <<>>
  /\ plan.searches >= 1 /\ Len(plan.all) >= 1
  /\ plan.resp.ok

\* C17: a failure of the SAR step or of a details lookup of plan-day, be it
\* an error result or a thrown network exception, never fails the plan: the
\* response is ok:true with the order and the timeline computed before.
C17_Claim ==
  (PlanResponded /\ (plan.sarFailed \/ plan.detailFailed)) =>
    /\ plan.resp.ok
    /\ plan.resp.order = plan.order
    /\ Len(plan.resp.timeline) = Len(plan.timeline)
    /\ \A l \in 1..Len(plan.timeline) :
         /\ plan.resp.timeline[l].from = plan.timeline[l].from
         /\ plan.resp.timeline[l].to = plan.timeline[l].to
         /\ plan.resp.timeline[l].eta_seconds = plan.timeline[l].eta_seconds

\* C18: origin coordinates in the valid range are used directly with
\* source=current and without a text search; without coordinates the top
\* text-search result is used with source=hotel; with neither coordinates nor
\* a query that resolves, the call fails with invalid_request.
C18_Claim ==
  LET given == plan.inp.origin.lat # Absent /\ plan.inp.origin.lon # Absent
      rejected == PlanResponded /\ plan.resp.code = "invalid_request"
  IN /\ (given /\ plan.pc # "called") =>
          /\ plan.originSearches = 0
          /\ ~rejected
          /\ plan.source = "current" /\ plan.O = plan.inp.origin
     /\ (~given /\ plan.source # "") => plan.source = "hotel"
     /\ (~given /\ ~plan.inp.origin_query /\ plan.pc # "called") =>
          (rejected /\ plan.resp.status = 400)

\* C21: in every matrix result, each ordered pair that is unreachable, be it
\* left out by the provider or reported without a duration, has duration_s
\* and distance_m equal to Infinity, and the call as a whole succeeds.
C21_Claim ==
  (mout.pc \in {"stored", "thrown"} /\ mout.fr.kind = "json") =>
    /\ mout.value.ok
    /\ LET n == Len(mout.call.inp.points)
           lines == mout.fr.lines
           reached(i, j) ==
             \E k \in 1..Len(lines) :
               /\ lines[k].originIndex = i /\ lines[k].destinationIndex = j
               /\ lines[k].duration # Absent
       IN \A i, j \in 0..(n - 1) :
            ~reached(i, j) =>
              /\ mout.value.matrix.duration_s[i][j] = Infinity
              /\ mout.value.matrix.distance_m[i][j] = Infinity

\* The retry without exclude was accepted and answered with 200.
RetrySucceeded ==
  /\ Answered /\ out.step = "osrm2" /\ out.resp.status = 200
  /\ SecondAccepted(out.rq.second)

\* C22: when the relaxed retry succeeds, constraint_relaxed is true if and
\* only if the request had at least one avoid term, for every avoid list the
\* validator accepts.
C22_Claim ==
  RetrySucceeded =>
    (out.resp.body.route_retry_relaxed <=> out.rq.body.avoid.length > 0)

\* C23: ORS is attempted first iff the avoid list is non-empty and ORS is
\* configured; if it succeeds its payload is returned with
\* route_retry_relaxed = FALSE and OSRM is never called; if it fails OSRM is
\* attempted next and the provider label records the fallback.
C23_ProviderOrdering ==
  /\ (out.step = "idle" /\ out.kind = "dispatch") =>
       /\ out.rq.pc = "ors" <=> (out.rq.body.avoid.length > 0 /\ ORS_API_KEY)
       /\ out.rq.pc = "ors" => (out.rq.orsCalls = 1 /\ out.rq.osrmCalls = 0)
       /\ out.rq.pc # "ors" => (out.rq.pc = "osrm1" /\ out.rq.orsCalls = 0)
  /\ (out.step = "ors" /\ Answered) =>
       /\ out.resp.status = 200
       /\ out.resp.body.geometry.src = "ors"
       /\ ~out.resp.body.route_retry_relaxed
       /\ out.rq.osrmCalls = 0 /\ out.rq.provider = "ors"
  /\ (out.step = "ors" /\ out.kind = "dispatch") =>
       /\ out.rq.pc = "osrm1" /\ out.rq.osrmCalls = 1
       /\ out.rq.provider = "osrm_fallback"
  /\ (Answered /\ out.rq.orsCalls = 1 /\ out.rq.osrmCalls >= 1) =>
       out.rq.provider \in {"osrm_fallback", "osrm_fallback_relaxed"}
  /\ (Answered /\ out.rq.orsCalls = 0 /\ out.rq.osrmCalls >= 1) =>
       out.rq.provider \in {"osrm", "osrm_relaxed"}

\* C23 witness: ORS failed, and the route came from OSRM as a fallback.
C23_Witness ==
  /\ Answered /\ out.resp.status = 200
  /\ out.rq.orsCalls = 1 /\ out.rq.osrmCalls >= 1
  /\ out.rq.provider = "osrm_fallback"
  /\ counters.provider_mix["osrm_fallback"] >= 1

\* The set of avoid terms of a request body.
AvoidTerms(body) == {body.avoid.items[i] : i \in 1..Len(body.avoid.items)}

\* C24: the cache key is canonical in the avoid set: a request whose ordered
\* stops (rounded to 5 decimals) and whose set of avoid terms are those of an
\* earlier request maps to the same key, so while the earlier request's entry
\* is fresh it is served from that entry.
C24_Claim ==
  (Arrived /\ ~out.rq.hit) =>
    ~\E i \in 1..Len(cache), b \in traffic :
       /\ cache[i].key = keyFor(b.stops, buildExcludeParam(b.avoid))
       /\ ~IsStale(cache[i], now)
       /\ keyFor(b.stops, <<>>) = keyFor(out.rq.body.stops, <<>>)
       /\ AvoidTerms(b) = AvoidTerms(out.rq.body)

\* The entries a lookup can still return.
FreshEntries(c) == SelectSeq(c, LAMBDA e : ~IsStale(e, now))
\* Invocations suspended in a provider call.
InFlight == {q \in Req : rq[q].pc \in {"ors", "osrm1", "osrm2"}}

\* C25: the breaker is advisory, never destructive: an invocation that fails
\* (opening the breaker or not) or that the open breaker rejects leaves the
\* cache's entries and the counters as they were and touches no other
\* invocation, and an invocation already past the breaker check is answered
\* by its provider calls' outcome, never by the breaker.
C25_BreakerAdvisory ==
  [][ /\ (out'.kind = "response" /\ out'.resp.status \in {502, 503}) =>
           /\ FreshEntries(cache') = FreshEntries(cache)
           /\ counters' = counters
           /\ \A q \in InFlight : rq'[q] = rq[q] \/ out'.before = rq[q]
      /\ (out'.kind = "response" /\ out'.step \in {"ors", "osrm1", "osrm2"}) =>
           out'.resp.status \in {200, 502}
    ]_vars

\* C25 witness: a failure opens the breaker while the cache holds a fresh
\* entry, a counter is set and another invocation is in flight.
C25_Witness ==
  /\ Answered /\ out.resp.status = 502
  /\ breakerUntil > now /\ breakerUntil # out.breakerBefore
  /\ FreshEntries(cache) # <<>>
  /\ \E p \in ProviderNames : counters.provider_mix[p] > 0
  /\ InFlight # {}

\* The sum of the provider_mix counters.
ProviderTotal(c) ==
  c.provider_mix["ors"] + c.provider_mix["osrm"] + c.provider_mix["osrm_fallback"]
  + c.provider_mix["osrm_relaxed"] + c.provider_mix["osrm_fallback_relaxed"]

\* C26: every freshly computed 200 response adds one to the provider_mix
\* counter of the provider that served it, and one to route_relaxed_count iff
\* it is marked relaxed; every other step (cache hit, breaker rejection,
\* validation failure, provider failure) leaves the counters as they were. So
\* the counters always equal the numbers of such responses.
C26_CountersCountSuccesses ==
  [][ LET fresh == /\ out'.kind = "response" /\ out'.resp.status = 200
                   /\ ~out'.rq.hit
      IN /\ fresh =>
              /\ ProviderTotal(counters') = ProviderTotal(counters) + 1
              /\ counters'.provider_mix[out'.rq.provider]
                   = counters.provider_mix[out'.rq.provider] + 1
              /\ counters'.route_relaxed_count
                   = counters.route_relaxed_count
                     + (IF out'.resp.body.route_retry_relaxed THEN 1 ELSE 0)
         /\ ~fresh => counters' = counters
    ]_vars

\* C26 witness: two fresh successes, one of them relaxed and one served by
\* the fallback, counted, and then a failure.
C26_Witness ==
  /\ ProviderTotal(counters) = 2
  /\ counters.route_relaxed_count = 1
  /\ counters.provider_mix["osrm_fallback"] = 1
  /\ Answered /\ out.resp.status = 502

\* The step just taken is the cache lookup of a getTravelMatrix invocation,
\* up to its return from the cache or its call of the provider.
LookupDone ==
  \/ mout.pc \in {"hit", "fetch"}
  \/ mout.pc = "thrown" /\ mout.value.error \in {"no_api_key", "need 2+ points"}

\* C27: getTravelMatrix returns a cached value without calling the provider
\* iff the store holds a non-expired entry (younger than the 60s TTL) for the
\* same mode, the same points rounded to 4 decimals in order and the same
\* 5-minute bucket of departureTime or of now; otherwise it calls the
\* provider.
C27_Claim ==
  LookupDone =>
    LET inp == mout.call.inp
        key == MatrixKey(inp.mode, inp.points, inp.iso, mclock)
        valid == {e \in mout.before : e.key = key /\ mclock - e.t < MATRIX_TTL_MS}
    IN /\ mout.pc = "hit" <=> valid # {}
       /\ mout.pc = "hit" => \A e \in valid : mout.value = e.v

\* C28: the matrix lookups of searchAlongRoute (the 3-point set of a
\* candidate) and of plan-day (the ordering matrix) go through the matrix
\* cache: once such a lookup has got the provider's matrix, the store holds
\* it under the lookup's key, so that an identical lookup within the TTL and
\* the bucket makes no second provider call.
C28_Claim ==
  /\ sar.pc # "off" =>
       \A a \in 1..Len(sar.scored) :
         StoreHas(mstore,
                  MatrixKey("DRIVE",
                            <<sar.sample[1], sar.scored[a].location[1],
                              sar.sample[Len(sar.sample)]>>,
                            Absent, mclock))
  /\ (plan.pc # "off" /\ plan.order # <<>>) => mstore # {}

\* The candidate of the last detour step was pushed to `scored`.
Pushed == Len(sar.scored) = sar.read.before + 1

\* C29: for a candidate whose three durations are finite, detour_min is
\* max(0, round((d(origin,candidate) + d(candidate,destination)
\* - d(origin,destination)) / 60)), and the candidate is scored iff that is
\* within maxDetourMin; a candidate with a duration that is not finite is
\* discarded; durations 300s, 400s and 600s direct give detour_min = 2.
C29_Detour ==
  (sar.pc # "off" /\ sar.read # NoRead) =>
    LET o_to_c == sar.read.durs[1]
        c_to_d == sar.read.durs[2]
        o_to_d == sar.read.durs[3]
        detour_s == (o_to_c + c_to_d) - o_to_d
        \* the integer nearest to detour_s / 60, halves up, not below 0
        exact(m) == IF detour_s < 0 THEN m = 0
                    ELSE 60 * m - 30 <= detour_s /\ detour_s < 60 * m + 30
        got == sar.scored[Len(sar.scored)]
    IN /\ sar.sample[1] = sar.inp.stops[1]
       /\ sar.sample[Len(sar.sample)] = sar.inp.stops[Len(sar.inp.stops)]
       /\ IF ~(IsFinite(o_to_c) /\ IsFinite(c_to_d) /\ IsFinite(o_to_d))
          THEN Len(sar.scored) = sar.read.before
          ELSE /\ Pushed \/ Len(sar.scored) = sar.read.before
               /\ Pushed => /\ got.place_id = sar.read.place
                            /\ got.detour_min \in Nat
                            /\ exact(got.detour_min)
                            /\ got.detour_min <= sar.inp.maxDetourMin
               /\ ~Pushed => \A m \in 0..sar.inp.maxDetourMin : ~exact(m)
               /\ (sar.read.durs = <<300, 400, 600>> /\ sar.inp.maxDetourMin >= 2)
                    => (Pushed /\ got.detour_min = 2)

\* C29 witness: a candidate on a shorter way than the direct one, scored with
\* detour_min = 0.
C29_Witness ==
  /\ sar.pc # "off" /\ sar.read # NoRead
  /\ sar.read.durs[1] + sar.read.durs[2] < sar.read.durs[3]
  /\ Pushed /\ sar.scored[Len(sar.scored)].detour_min = 0

\* C30: the candidate accumulation stops as soon as 50 unique candidates are
\* collected: no sample-point search is issued once the count has reached 50.
C30_Claim ==
  (sar.pc = "search" /\ sar.searches >= 1) => Len(sar.candidates) < 50

\* C31: the details enrichment of searchAlongRoute makes at most 6 lookups,
\* for the first 6 results, and is best-effort: whatever a lookup comes to
\* (a non-success response or a thrown network error), the call goes on to
\* return the ranked list, with every candidate in it and in the same order.
C31_Claim ==
  sar.details >= 1 =>
    LET top == Slice(SarSort(sar.scored), sar.inp.maxResults) IN
    /\ sar.details <= 6
    /\ sar.pc \in {"enrich", "returned"}
    /\ Len(sar.result) = Len(top)
    /\ \A a \in 1..Len(top) :
         /\ sar.result[a].place_id = top[a].place_id
         /\ sar.result[a].detour_min = top[a].detour_min
         /\ (a > 6 \/ a > sar.details) => ~sar.result[a].enriched

\* C32: at every step of the plan-day ordering the candidate appended is an
\* unvisited candidate whose travel time from the last-visited node is
\* minimal among the unvisited ones, the lowest index among equal minima;
\* the order is a function of the matrix, and the destination comes after
\* the candidates.
C32_GreedyStep ==
  plan.order # <<>> =>
    LET order == plan.order
        last == Len(order)
        unvisited(k) == (1..(PlanN - 2)) \ {order[p] : p \in 1..(k - 1)}
    IN /\ order[1] = 0
       /\ order[last] = PlanN - 1
       /\ \A k \in 2..(last - 1) :
            /\ order[k] \in unvisited(k)
            /\ \A o \in unvisited(k) :
                 /\ plan.dur[order[k - 1]][order[k]] <= plan.dur[order[k - 1]][o]
                 /\ plan.dur[order[k - 1]][o] = plan.dur[order[k - 1]][order[k]]
                      => order[k] <= o
       /\ order = PlanOrder(plan.dur, PlanN)

\* C32 witness: every candidate is visited, the one with the highest index
\* first because it is the nearest to the origin.
C32_Witness ==
  /\ PlanN >= 4 /\ Len(plan.order) = PlanN
  /\ plan.order[2] = PlanN - 2
  /\ plan.order[2] > plan.order[3]
  /\ \A o \in 1..(PlanN - 3) : plan.dur[0][plan.order[2]] < plan.dur[0][o]

\* The sum of the durations of the reachable legs among the first i legs of
\* an order.
RECURSIVE ReachableSum(_, _, _)
ReachableSum(dur, order, i) ==
  IF i = 0 THEN 0
  ELSE ReachableSum(dur, order, i - 1)
       + (IF dur[order[i]][order[i + 1]] # Infinity
          THEN dur[order[i]][order[i + 1]] ELSE 0)

\* C33: the plan-day timeline has one leg per consecutive pair of the order;
\* a leg with a finite duration has leg_seconds equal to the matrix duration
\* and an ETA equal to the sum of leg_seconds of the reachable legs up to and
\* including it; an unreachable leg has null leg_seconds and null ETA and
\* adds nothing to the running sum.
C33_Timeline ==
  plan.order # <<>> =>
    /\ Len(plan.timeline) = Len(plan.order) - 1
    /\ \A i \in 1..Len(plan.timeline) :
         LET leg == plan.timeline[i]
             d == plan.dur[plan.order[i]][plan.order[i + 1]]
         IN /\ leg.from = plan.order[i]
            /\ leg.to = plan.order[i + 1]
            /\ IF d # Infinity
               THEN /\ leg.leg_seconds = Some(d)
                    /\ leg.eta_seconds = Some(ReachableSum(plan.dur, plan.order, i))
               ELSE /\ leg.leg_seconds = Absent
                    /\ leg.eta_seconds = Absent

\* C33 witness: three legs or more, the last one unreachable and without
\* ETA, the one before it with the sum of the legs so far.
C33_Witness ==
  /\ plan.order # <<>> /\ Len(plan.timeline) >= 3
  /\ plan.timeline[Len(plan.timeline)].leg_seconds = Absent
  /\ plan.timeline[Len(plan.timeline)].eta_seconds = Absent
  /\ plan.timeline[2].eta_seconds
       = Some(plan.timeline[1].leg_seconds[1] + plan.timeline[2].leg_seconds[1])
  /\ plan.timeline[1].leg_seconds[1] > 0

\* The legs of a timeline without what the enrichment adds.
Legs(timeline) ==
  [l \in 1..Len(timeline) |->
     [from |-> timeline[l].from, to |-> timeline[l].to,
      leg_seconds |-> timeline[l].leg_seconds,
      eta_seconds |-> timeline[l].eta_seconds]]

\* C34: running SAR inside plan-day only adds metadata. SAR is given the
\* stops of the order, in that order, and whatever SAR comes to, the
\* response carries the order and the timeline legs that the same matrix
\* gives without a SAR spec (a details lookup that throws ends both alike).
C34_Claim ==
  (PlanResponded /\ plan.sarCalls >= 1 /\ ~(plan.detailFailed /\ ~plan.resp.ok)) =>
    /\ plan.routeStops = plan.order
    /\ plan.resp.ok
    /\ plan.resp.order = PlanOrder(plan.dur, PlanN)
    /\ Legs(plan.resp.timeline)
         = Legs(Timeline(plan.dur, PlanOrder(plan.dur, PlanN), 1, 0))

\* C35: the details enrichment of plan-day touches only the first 3
\* POI-kind stops of the timeline: at most 3 details lookups are issued per
\* plan and no POI stop after the third is enriched, even when earlier
\* lookups fail.
C35_Claim ==
  plan.pc # "off" =>
    /\ plan.detailCalls <= 3
    /\ \A l \in 1..Len(plan.timeline) :
         plan.timeline[l].enriched =>
           Cardinality({m \in 1..l : plan.timeline[m].to \notin {0, PlanN - 1}}) <= 3

\* C36: if the matrix computation for the ordering fails in plan-day, be it
\* that the provider answers with a failure or that the call throws, the
\* plan fails with matrix_error, and no partial plan, order or timeline is
\* returned. (A matrix call that succeeded leaves a non-empty order.)
C36_Claim ==
  (PlanResponded /\ plan.matrixCalls >= 1 /\ plan.order = <<>>) =>
    /\ plan.resp.status = 502
    /\ ~plan.resp.ok
    /\ plan.resp.code = "matrix_error"
    /\ plan.resp.order = <<>>
    /\ plan.resp.timeline = <<>>

\* C37: the breaker deadline never moves earlier: whatever the interleaving
\* of the requests that passed the breaker check and then fail, no handler
\* step leaves the deadline below the one it found.
C37_Claim ==
  out.kind \in {"response", "dispatch"} => breakerUntil >= out.breakerBefore

\* C38: when both primary attempts fail, the error code and the breaker
\* cooldown follow from the first attempt's outcome alone: provider_timeout
\* iff the first attempt timed out; 60s for a first attempt answered 5xx,
\* 30s for one that ended in an error, otherwise the deadline as it was.
\* So a first attempt answered 4xx and a retry that times out give
\* provider_error with the breaker untouched, and a first attempt that
\* times out and a retry answered 5xx give provider_timeout with 30s.
C38_FirstAttemptDecides ==
  (out.step = "osrm2" /\ out.resp.status = 502) =>
    LET f == out.before.first
        s2 == out.rq.second
    IN /\ out.resp.body.code = "provider_timeout" <=> f.error = "timeout"
       /\ out.resp.body.code = "provider_error" <=> f.error # "timeout"
       /\ breakerUntil = IF f.status >= 500 THEN now + BREAKER_5XX_MS
                         ELSE IF f.error # "" THEN now + BREAKER_NET_MS
                         ELSE out.breakerBefore
       /\ (f.status \in 400..499 /\ s2.error = "timeout") =>
            /\ out.resp.body.code = "provider_error"
            /\ breakerUntil = out.breakerBefore
       /\ (f.error = "timeout" /\ s2.status >= 500) =>
            /\ out.resp.body.code = "provider_timeout"
            /\ breakerUntil = now + BREAKER_NET_MS

\* C38 witness: a first attempt answered 400, a retry that times out, and
\* provider_error with the breaker still closed.
C38_Witness ==
  /\ out.step = "osrm2" /\ out.resp.status = 502
  /\ out.before.first.status = 400
  /\ out.rq.second.error = "timeout"
  /\ out.resp.body.code = "provider_error"
  /\ breakerUntil = out.breakerBefore /\ ~BreakerOpen(now, breakerUntil)

\* C39: in every plan-day timeline, every leg that ends at a POI has a
\* finite, non-null leg_seconds and ETA; only the final leg, into the
\* destination, can have null leg_seconds; and the order never contains the
\* same index twice.
C39_PoiLegsFinite ==
  plan.order # <<>> =>
    /\ \A l \in 1..Len(plan.timeline) :
         LET leg == plan.timeline[l] IN
         /\ leg.to \notin {0, PlanN - 1} =>
              /\ leg.leg_seconds # Absent /\ leg.eta_seconds # Absent
              /\ IsFinite(leg.leg_seconds[1]) /\ IsFinite(leg.eta_seconds[1])
         /\ leg.leg_seconds = Absent =>
              (l = Len(plan.timeline) /\ leg.to = PlanN - 1)
    /\ \A a, b \in 1..Len(plan.order) :
         a # b => plan.order[a] # plan.order[b]

\* C39 witness: two POI legs with their ETAs, then a final leg into the
\* destination that is unreachable.
C39_Witness ==
  /\ plan.order # <<>> /\ Len(plan.timeline) >= 3
  /\ plan.timeline[1].to \notin {0, PlanN - 1}
  /\ plan.timeline[2].to \notin {0, PlanN - 1}
  /\ plan.timeline[2].eta_seconds # Absent
  /\ plan.timeline[Len(plan.timeline)].to = PlanN - 1
  /\ plan.timeline[Len(plan.timeline)].leg_seconds = Absent
  /\ plan.dur[0][PlanN - 1] # Infinity

\* Two stop lists that differ only in their intermediate stops.
SameEnds(s, t) ==
  s # t /\ s[1] = t[1] /\ s[Len(s)] = t[Len(t)]

\* C40: for a request with 3 to 5 stops the primary provider (OSRM) is
\* queried with the first and the last stop only, so that two requests that
\* differ only in their intermediate stops issue the same primary query
\* while their cache keys differ; the secondary provider (ORS) is sent all
\* stops in order.
C40_Queries ==
  /\ (Answered /\ out.resp.status = 200 /\ ~out.rq.hit
        /\ Len(out.rq.body.stops) >= 3) =>
       LET stops == out.rq.body.stops
           g == out.resp.body.geometry
       IN IF out.rq.provider = "ors"
          THEN g.via = [i \in 1..Len(stops) |-> <<stops[i].lon, stops[i].lat>>]
          ELSE g.via = <<<<stops[1].lon, stops[1].lat>>,
                         <<stops[Len(stops)].lon, stops[Len(stops)].lat>>>>
  /\ \A r1, r2 \in Req :
       (/\ rq[r1].pc \in {"osrm1", "osrm2"} /\ rq[r2].pc = rq[r1].pc
        /\ rq[r1].exclude = rq[r2].exclude
        /\ SameEnds(rq[r1].body.stops, rq[r2].body.stops)) =>
         /\ OsrmUrl(rq[r1].body.stops, rq[r1].exclude)
              = OsrmUrl(rq[r2].body.stops, rq[r2].exclude)
         /\ keyFor(rq[r1].body.stops, rq[r1].exclude)
              # keyFor(rq[r2].body.stops, rq[r2].exclude)

\* C40 witness: OSRM answers a three-stop request with the route between
\* its end points while a request with another intermediate stop awaits the
\* same query.
C40_Witness ==
  /\ Answered /\ out.resp.status = 200 /\ ~out.rq.hit
  /\ Len(out.rq.body.stops) = 3 /\ out.rq.provider = "osrm"
  /\ Len(out.resp.body.geometry.via) = 2
  /\ \E r \in Req :
       /\ rq[r].pc = "osrm1"
       /\ rq[r].exclude = out.rq.exclude
       /\ SameEnds(rq[r].body.stops, out.rq.body.stops)

====
